---------------------------- MODULE Spec2Model ----------------------------
(***************************************************************************)
(* SkyMetropolis: the city simulation session of src/App.tsx (the React    *)
(* component App, lines 1-727), with the building catalog of               *)
(* src/constants.tsx.                                                      *)
(*                                                                         *)
(* Modelling conventions                                                   *)
(*  - A React state cell (useState) is a variable; each ref (useRef) is a  *)
(*    second variable that the "Sync refs" effects copy from the state.    *)
(*    Updates queued by a timer or promise callback are committed by the   *)
(*    action itself and leave the passive effects pending (the refs are    *)
(*    stale until RunEffects); updates made by a user event are committed  *)
(*    and their effects flushed before the next callback runs.             *)
(*  - JavaScript numbers are exact rationals <<n, d>> (d > 0, reduced)     *)
(*    where the code produces fractions, and integers elsewhere; IEEE      *)
(*    rounding is not modelled.                                            *)
(*  - Objects are functions from the field names that are present, so an   *)
(*    absent field (tile.variant, tile.health of an old save) is absent.   *)
(***************************************************************************)
EXTENDS Integers, Sequences, FiniteSets, TLC

\* ------------------------------------------------------------ bounds ----
\* The grid is GRID_SIZE x GRID_SIZE; the program uses 15.
GRID_SIZE == 5
\* Ticks per run.
MaxTicks == 2
\* User actions (tile clicks, budget changes, claims, saves, reloads) per run.
MaxOps == 3
\* generateNewsEvent calls in flight at once.
MaxNewsRequests == 1

\* ----------------------------------------------------------- catalog ----
BuildingTypes ==
  {"None", "Road", "Residential", "Commercial", "Industrial", "MixedUse", "Park",
   "PowerPlant", "WaterPump", "School", "Hospital", "PoliceStation", "Stadium",
   "Airport"}

Config(cost, mc, pop, inc, pU, wU, pG, wG, edu, hc, gG, gU, sG) ==
  [cost |-> cost, maintenanceCost |-> mc, popGen |-> pop, incomeGen |-> inc,
   powerUsage |-> pU, waterUsage |-> wU, powerGen |-> pG, waterGen |-> wG,
   educationGen |-> edu, healthcareGen |-> hc, goodsGen |-> gG, goodsUsage |-> gU,
   safetyGen |-> sG]

BUILDINGS ==
  [t \in BuildingTypes |->
    CASE t = "None"          -> Config(0,    0,   0, 0,   0,  0,  0,  0,  0,   0,   0,  0, 0)
      [] t = "Road"          -> Config(10,   1,   0, 0,   0,  0,  0,  0,  0,   0,   0,  0, 0)
      [] t = "Residential"   -> Config(100,  0,   5, 0,   1,  1,  0,  0,  0,   0,   0,  0, 0)
      [] t = "MixedUse"      -> Config(350,  0,   8, 10,  2,  2,  0,  0,  0,   0,   0,  2, 0)
      [] t = "Commercial"    -> Config(200,  0,   0, 15,  2,  1,  0,  0,  0,   0,   0,  3, 0)
      [] t = "Industrial"    -> Config(400,  0,   0, 40,  5,  3,  0,  0,  0,   0,   10, 0, 0)
      [] t = "Park"          -> Config(50,   2,   1, 0,   0,  1,  0,  0,  0,   0,   0,  0, 0)
      [] t = "PowerPlant"    -> Config(500,  20,  0, 0,   0,  0,  50, 0,  0,   0,   0,  0, 0)
      [] t = "WaterPump"     -> Config(400,  15,  0, 0,   2,  0,  0,  50, 0,   0,   0,  0, 0)
      [] t = "School"        -> Config(600,  25,  0, 0,   3,  2,  0,  0,  100, 0,   0,  1, 0)
      [] t = "Hospital"      -> Config(800,  40,  0, 0,   5,  3,  0,  0,  0,   150, 0,  2, 0)
      [] t = "PoliceStation" -> Config(700,  30,  0, 0,   3,  1,  0,  0,  0,   0,   0,  1, 200)
      [] t = "Stadium"       -> Config(3000, 100, 0, 60,  15, 10, 0,  0,  0,   0,   0,  5, 0)
      [] t = "Airport"       -> Config(8000, 250, 0, 300, 30, 10, 0,  0,  0,   0,   50, 0, 0)]

INITIAL_MONEY == 25000

\* --------------------------------------------------------- rationals ----
RECURSIVE GCD(_, _)
GCD(a, b) == IF b = 0 THEN a ELSE GCD(b, a % b)

Abs(n) == IF n < 0 THEN -n ELSE n

\* The reduced fraction n/d, d # 0.
Rat(n, d) ==
  LET g == GCD(Abs(n), Abs(d))
      s == IF d < 0 THEN -1 ELSE 1
  IN <<(s * n) \div g, (s * d) \div g>>

RInt(n) == <<n, 1>>
RNeg(a) == <<-a[1], a[2]>>
\* Sums and comparisons go through the least common denominator, products
\* cancel crosswise first, which keeps the intermediate integers small.
RAdd(a, b) ==
  LET g == GCD(a[2], b[2])
  IN Rat(a[1] * (b[2] \div g) + b[1] * (a[2] \div g), (a[2] \div g) * b[2])
RSub(a, b) == RAdd(a, RNeg(b))
RMul(a, b) ==
  LET g1 == GCD(Abs(a[1]), b[2])
      g2 == GCD(Abs(b[1]), a[2])
  IN <<(a[1] \div g1) * (b[1] \div g2), (a[2] \div g2) * (b[2] \div g1)>>
RDiv(a, b) == RMul(a, IF b[1] < 0 THEN <<-b[2], -b[1]>> ELSE <<b[2], b[1]>>)
RLt(a, b) ==
  LET g == GCD(a[2], b[2])
  IN a[1] * (b[2] \div g) < b[1] * (a[2] \div g)
RLe(a, b) == ~RLt(b, a)
RMin(a, b) == IF RLe(a, b) THEN a ELSE b
RMax(a, b) == IF RLe(a, b) THEN b ELSE a
\* Math.floor
RFloor(a) == a[1] \div a[2]
IsRat(a) == a \in Int \X (Nat \ {0}) /\ GCD(Abs(a[1]), a[2]) = 1

\* f[0] + ... + f[n], of integers and of fractions
RECURSIVE SumUpTo(_, _)
SumUpTo(f, n) == IF n < 0 THEN 0 ELSE SumUpTo(f, n - 1) + f[n]

RECURSIVE RSumUpTo(_, _)
RSumUpTo(f, n) == IF n < 0 THEN RInt(0) ELSE RAdd(RSumUpTo(f, n - 1), f[n])

Min(a, b) == IF a <= b THEN a ELSE b
Max(a, b) == IF a >= b THEN a ELSE b


\* ------------------------------------------------------------ objects ---
Has(o, f) == f \in DOMAIN o

\* { ...o, ...u }
Spread(o, u) ==
  [f \in DOMAIN o \cup DOMAIN u |-> IF f \in DOMAIN u THEN u[f] ELSE o[f]]

\* 100, whatever the tile's health
HealthOfSound(tile) == 100

\* tile.health ?? 100
HealthOf(tile) == IF Has(tile, "health") THEN tile.health ELSE 100

\* tile.variant || 0
VariantOf(tile) == IF Has(tile, "variant") THEN tile.variant ELSE 0

Coords == 0 .. (GRID_SIZE - 1)

\* createInitialGrid: every tile { x, y, buildingType: None, health: 100 }
createInitialGrid ==
  [y \in Coords |-> [x \in Coords |->
     [x |-> x, y |-> y, buildingType |-> "None", health |-> 100]]]

FullBudget ==
  [infrastructure |-> 100, power |-> 100, water |-> 100, education |-> 100,
   healthcare |-> 100, safety |-> 100, environment |-> 100]

BudgetCategories == DOMAIN FullBudget

InitialStats ==
  [money |-> RInt(INITIAL_MONEY), population |-> 0, day |-> 1, happiness |-> 100,
   pollution |-> 0, weather |-> "sunny",
   powerSupply |-> RInt(0), powerDemand |-> 0,
   waterSupply |-> RInt(0), waterDemand |-> 0,
   educationCoverage |-> 100, healthcareCoverage |-> 100,
   goodsSupply |-> RInt(0), goodsDemand |-> 0,
   safetyCoverage |-> 100, trafficCongestion |-> 0,
   budget |-> FullBudget]

\* --------------------------------------------------- tick: pass 1 -------
\* A multiplier of 1 for every type.
getBudgetMultiplierFull(type, budget) == 100

\* getBudgetMultiplier, as a percentage: the multiplier is this / 100.
getBudgetMultiplier(type, budget) ==
  CASE type = "Road"          -> budget.infrastructure
    [] type = "PowerPlant"    -> budget.power
    [] type = "WaterPump"     -> budget.water
    [] type = "School"        -> budget.education
    [] type = "Hospital"      -> budget.healthcare
    [] type = "PoliceStation" -> budget.safety
    [] type = "Park"          -> budget.environment
    [] type = "Stadium"       -> budget.environment
    [] type = "Airport"       -> budget.infrastructure
    [] OTHER                  -> 100

TrafficTypes ==
  {"Residential", "Commercial", "Industrial", "MixedUse", "School", "Hospital",
   "Stadium", "Airport"}

\* trafficLoad added by one tile
TileTraffic(type) ==
  IF type \in TrafficTypes
  THEN 1 + (IF type = "Stadium" THEN 4 ELSE 0) + (IF type = "Airport" THEN 12 ELSE 0)
  ELSE 0

\* The sum, row by row, of a grid of integers ...
TileSum(terms) ==
  SumUpTo([y \in Coords |-> SumUpTo(terms[y], GRID_SIZE - 1)], GRID_SIZE - 1)

\* ... and of a grid of fractions.
RTileSum(terms) ==
  RSumUpTo([y \in Coords |-> RSumUpTo(terms[y], GRID_SIZE - 1)], GRID_SIZE - 1)

\* Pass 1: the aggregates of one tick.  A product generation * multiplier *
\* healthFactor is summed as the integer generation * budget% * health and
\* divided by 100 * 100 once.
Pass1(g, budget) ==
  LET M(t)  == getBudgetMultiplier(t.buildingType, budget)
      C(t)  == BUILDINGS[t.buildingType]
      H(t)  == HealthOf(t)
      F(t)  == M(t) * H(t)
      mMaint(t) == C(t).maintenanceCost * M(t)
      mPow(t)   == C(t).powerGen * F(t)
      mWat(t)   == C(t).waterGen * F(t)
      mEdu(t)   == C(t).educationGen * F(t)
      mHc(t)    == C(t).healthcareGen * F(t)
      mSafe(t)  == C(t).safetyGen * F(t)
      mPD(t)    == C(t).powerUsage
      mWD(t)    == C(t).waterUsage
      mGS(t)    == C(t).goodsGen * H(t)
      mGD(t)    == C(t).goodsUsage
      mTL(t)    == TileTraffic(t.buildingType)
      mRC(t)    == IF t.buildingType = "Road" THEN 5 * H(t) ELSE 0
      \* what the forEach adds for each tile: nothing for an empty one
      Each(Term(_)) ==
        [y \in Coords |-> [x \in Coords |->
           IF g[y][x].buildingType # "None" THEN Term(g[y][x]) ELSE 0]]
  IN [dailyMaintenance |-> Rat(TileSum(Each(mMaint)), 100),
      pSupply        |-> Rat(TileSum(Each(mPow)), 10000),
      wSupply        |-> Rat(TileSum(Each(mWat)), 10000),
      eduCapacity    |-> Rat(TileSum(Each(mEdu)), 10000),
      healthCapacity |-> Rat(TileSum(Each(mHc)), 10000),
      safetyCapacity |-> Rat(TileSum(Each(mSafe)), 10000),
      pDemand        |-> TileSum(Each(mPD)),
      wDemand        |-> TileSum(Each(mWD)),
      gSupply        |-> Rat(TileSum(Each(mGS)), 100),
      gDemand        |-> TileSum(Each(mGD)),
      trafficLoad    |-> TileSum(Each(mTL)),
      roadCapacity   |-> Rat(TileSum(Each(mRC)), 100),
      buildingCounts |-> [ty \in BuildingTypes |->
         IF ty = "None" THEN 0
         ELSE Cardinality({c \in Coords \X Coords : g[c[2]][c[1]].buildingType = ty})]]

\* supply > 0 ? Math.min(1, supply / demand) : 1
EfficiencyUnsupplied(supply, demand) ==
  IF RLt(RInt(0), supply) /\ demand > 0
  THEN RMin(RInt(1), RDiv(supply, RInt(demand))) ELSE RInt(1)

\* demand > 0 ? supply / demand : 1
EfficiencyUncapped(supply, demand) ==
  IF demand > 0 THEN RDiv(supply, RInt(demand)) ELSE RInt(1)

\* demand > 0 ? Math.min(1, supply / demand) : 1
Efficiency(supply, demand) ==
  IF demand > 0 THEN RMin(RInt(1), RDiv(supply, RInt(demand))) ELSE RInt(1)

\* currentTrafficCongestion (before Math.floor)
TrafficCongestion(trafficLoad, roadCapacity) ==
  IF RLt(RInt(0), roadCapacity)
  THEN RMin(RInt(100), RMul(RDiv(RInt(trafficLoad), roadCapacity), RInt(100)))
  ELSE IF trafficLoad > 0 THEN RInt(100) ELSE RInt(0)

\* --------------------------------------------------- tick: pass 2 -------
Pass2(g, basicUtilEfficiency, goodsEfficiency) ==
  LET hf(t) == Rat(HealthOf(t), 100)
      income(t) ==
        LET base == RMul(RMul(RInt(BUILDINGS[t.buildingType].incomeGen),
                              basicUtilEfficiency), hf(t))
        IN IF BUILDINGS[t.buildingType].goodsUsage > 0
           THEN RMul(base, goodsEfficiency) ELSE base
      pop(t) == RMul(RMul(RInt(BUILDINGS[t.buildingType].popGen),
                          basicUtilEfficiency), hf(t))
      Each(Term(_)) ==
        [y \in Coords |-> [x \in Coords |->
           IF g[y][x].buildingType # "None" THEN Term(g[y][x]) ELSE RInt(0)]]
  IN [dailyIncome |-> RTileSum(Each(income)), dailyPopGrowth |-> RTileSum(Each(pop))]

\* Lines 306-337 on pass 1's aggregates `a` and the three efficiencies.
AfterEfficiencies(g, a, pe, we, ge) ==
  Spread(Spread(a,
      [powerEfficiency |-> pe, waterEfficiency |-> we, goodsEfficiency |-> ge,
       basicUtilEfficiency |-> RDiv(RAdd(pe, we), RInt(2)),
       currentTrafficCongestion |-> TrafficCongestion(a.trafficLoad, a.roadCapacity),
       totalHousing |-> a.buildingCounts["Residential"] * 50
                        + a.buildingCounts["MixedUse"] * 100]),
    Pass2(g, RDiv(RAdd(pe, we), RInt(2)), ge))

\* Lines 301-337 on pass 1's aggregates `a`.
AfterPass1(g, a) ==
  AfterEfficiencies(g, a, Efficiency(a.pSupply, a.pDemand),
                    Efficiency(a.wSupply, a.wDemand), Efficiency(a.gSupply, a.gDemand))

\* Everything the timer callback computes from the grid before the stats
\* updater runs (lines 251-337).
Accounts(g, budget) == AfterPass1(g, Pass1(g, budget))

\* ------------------------------------------- tick: the stats updater ----
\* newPop without the housing cap of line 405
NewPopUncapped(prevPopulation, dailyPopGrowth, totalHousing) ==
  LET grown == RAdd(RInt(prevPopulation), dailyPopGrowth)
  IN RFloor(IF totalHousing = 0 /\ prevPopulation > 0
            THEN RInt(Max(0, prevPopulation - 5)) ELSE grown)

\* newPop without the emigration of line 406
NewPopSettled(prevPopulation, dailyPopGrowth, totalHousing) ==
  LET grown == RAdd(RInt(prevPopulation), dailyPopGrowth)
  IN RFloor(IF RLt(RInt(totalHousing), grown) THEN RInt(totalHousing) ELSE grown)

\* newPop (lines 404-407)
NewPop(prevPopulation, dailyPopGrowth, totalHousing) ==
  LET grown  == RAdd(RInt(prevPopulation), dailyPopGrowth)
      capped == IF RLt(RInt(totalHousing), grown) THEN RInt(totalHousing) ELSE grown
      moved  == IF totalHousing = 0 /\ prevPopulation > 0
                THEN RInt(Max(0, prevPopulation - 5)) ELSE capped
  IN RFloor(moved)

\* currentPollution without Math.max(0, Math.min(100, ...))
PollutionUnclamped(counts) ==
  counts["Industrial"] * 10 + counts["PowerPlant"] * 5
  + counts["Airport"] * 20 - counts["Park"] * 5

\* currentPollution (lines 416-417)
Pollution(counts) ==
  Max(0, Min(100, counts["Industrial"] * 10 + counts["PowerPlant"] * 5
                  + counts["Airport"] * 20 - counts["Park"] * 5))

\* eduCov / healthCov / safetyCov before Math.floor (lines 420-428)
Coverage(capacity, newPop) ==
  IF newPop > 0
  THEN RMin(RInt(100), RMul(RDiv(capacity, RInt(newPop)), RInt(100)))
  ELSE RInt(100)

\* A service's happiness term: the penalty below 50, the bonus above `high`.
ServiceTerm(cov, weight, high) ==
  IF RLt(cov, RInt(50))
  THEN RSub(RInt(0), RMul(RInt(weight), RSub(RInt(1), RDiv(cov, RInt(50)))))
  ELSE IF RLt(RInt(high), cov) THEN RInt(5) ELSE RInt(0)

\* newHappiness (lines 431-473); the statements in their order.
Happiness(prev, acc, newPop, currentPollution, eduCov, healthCov, safetyCov, disaster) ==
  LET counts == acc.buildingCounts
      parkBonus == Min(counts["Park"] * 5, 20)
      entertainmentBonus == Min(counts["Stadium"] * 15, 30)
      \* Math.floor(currentPollution * 0.8)
      h1 == 60 + parkBonus + entertainmentBonus - ((currentPollution * 8) \div 10)
      h2 == IF acc.totalHousing > 0 /\ newPop * 10 > acc.totalHousing * 9
            THEN h1 - 15 ELSE h1
      h3 == IF acc.totalHousing = 0 /\ newPop > 0 THEN 10 ELSE h2
      h4 == RSub(RInt(h3), RMul(RInt(20), RSub(RInt(1), acc.powerEfficiency)))
      h5 == RSub(h4, RMul(RInt(20), RSub(RInt(1), acc.waterEfficiency)))
      h6 == RAdd(h5, ServiceTerm(eduCov, 15, 80))
      h7 == RAdd(h6, ServiceTerm(healthCov, 20, 80))
      h8 == RAdd(h7, ServiceTerm(safetyCov, 15, 90))
      h9 == IF RLt(acc.goodsEfficiency, Rat(1, 2)) THEN RSub(h8, RInt(5)) ELSE h8
      h10 == IF RLt(RInt(60), acc.currentTrafficCongestion)
             THEN RSub(h9, RInt(RFloor(RMul(RSub(acc.currentTrafficCongestion, RInt(60)),
                                            Rat(1, 2)))))
             ELSE h9
      h11 == IF RLt(RInt(2000), prev.money) THEN RAdd(h10, RInt(5)) ELSE h10
      h12 == CASE prev.weather = "rainy" -> RSub(h11, RInt(2))
               [] prev.weather = "sunny" -> RAdd(h11, RInt(2))
               [] prev.weather = "snowy" -> RSub(h11, RInt(1))
               [] OTHER -> h11
      h13 == IF disaster THEN RSub(h12, RInt(10)) ELSE h12
  IN Max(0, Min(100, RFloor(h13)))

\* The income alone.
NetIncomeGross(acc) == acc.dailyIncome

\* netIncome (line 483)
NetIncome(acc) == RSub(acc.dailyIncome, acc.dailyMaintenance)

\* newStats (lines 403-504): the updater's result on `prev`, given what the
\* timer callback computed from the grid and the weather the roll produced.
NewStats(prev, acc, disasterOccurred, currentWeather) ==
  LET newPop == NewPop(prev.population, acc.dailyPopGrowth, acc.totalHousing)
      currentPollution == Pollution(acc.buildingCounts)
      eduCov    == Coverage(acc.eduCapacity, newPop)
      healthCov == Coverage(acc.healthCapacity, newPop)
      safetyCov == Coverage(acc.safetyCapacity, newPop)
      netIncome == NetIncome(acc)
  IN Spread(prev,
      [money |-> RAdd(prev.money, netIncome),
       population |-> newPop,
       day |-> prev.day + 1,
       happiness |-> Happiness(prev, acc, newPop, currentPollution, eduCov,
                               healthCov, safetyCov, disasterOccurred),
       pollution |-> currentPollution,
       weather |-> currentWeather,
       powerSupply |-> acc.pSupply, powerDemand |-> acc.pDemand,
       waterSupply |-> acc.wSupply, waterDemand |-> acc.wDemand,
       educationCoverage |-> RFloor(eduCov),
       healthcareCoverage |-> RFloor(healthCov),
       goodsSupply |-> acc.gSupply, goodsDemand |-> acc.gDemand,
       safetyCoverage |-> RFloor(safetyCov),
       trafficCongestion |-> RFloor(acc.currentTrafficCongestion)])

\* ---------------------------------------------------------- goals -------
\* null, and a goal object
NoGoal == [present |-> FALSE]

IsGoal(goal) == goal.present

\* isMet with > for each >=
GoalIsMetStrict(goal, newStats, counts) ==
  \/ goal.targetType = "money" /\ RLt(RInt(goal.targetValue), newStats.money)
  \/ goal.targetType = "population" /\ newStats.population > goal.targetValue
  \/ /\ goal.targetType = "building_count"
     /\ Has(goal, "buildingType")
     /\ counts[goal.buildingType] > goal.targetValue

\* isMet (lines 509-514)
GoalIsMet(goal, newStats, counts) ==
  \/ goal.targetType = "money" /\ RLe(RInt(goal.targetValue), newStats.money)
  \/ goal.targetType = "population" /\ newStats.population >= goal.targetValue
  \/ /\ goal.targetType = "building_count"
     /\ Has(goal, "buildingType")
     /\ counts[goal.buildingType] >= goal.targetValue

\* Check Goal Completion recomputing the flag of a goal at every tick.
GoalAfterTickUnlatched(current, goalRefNow, aiEnabledRefNow, newStats, counts) ==
  IF aiEnabledRefNow /\ IsGoal(goalRefNow)
  THEN Spread(goalRefNow, [completed |-> GoalIsMet(goalRefNow, newStats, counts)])
  ELSE current

\* 3. Check Goal Completion (lines 506-519): the goal the updater installs,
\* or `current` when it calls no setter.
GoalAfterTick(current, goalRefNow, aiEnabledRefNow, newStats, counts) ==
  IF aiEnabledRefNow /\ IsGoal(goalRefNow) /\ ~goalRefNow.completed
     /\ GoalIsMet(goalRefNow, newStats, counts)
  THEN Spread(goalRefNow, [completed |-> TRUE])
  ELSE current

\* ------------------------------------------------------------ state -----
VARIABLES
  gameStarted,        \* useState(false)
  aiEnabled,          \* useState(true)
  grid,               \* useState(createInitialGrid)
  stats,              \* useState({...})
  selectedTool,       \* useState(BuildingType.Road)
  currentGoal,        \* useState(null)
  isGeneratingGoal,   \* useState(false)
  newsFeed,           \* useState([])
  gridRef, statsRef, goalRef, aiEnabledRef,   \* useRef(...).current
  pending,            \* "none", or who committed the state whose passive
                      \* effects have not run yet: "tick" or "async"
  monitorTimer,       \* the goal monitor's 3000 ms timeout is armed
  monitorDeps,        \* the dependencies the goal monitor effect last ran with
  goalRequests,       \* fetchNewGoal calls awaiting their result
  newsRequests,       \* generateNewsEvent calls awaiting their result
  storage,            \* localStorage['skymetropolis_save'], parsed
  ticks, ops,         \* how many ticks / user actions this run has taken
  last                \* the operation that produced this state

vars ==
  <<gameStarted, aiEnabled, grid, stats, selectedTool, currentGoal,
    isGeneratingGoal, newsFeed, gridRef, statsRef, goalRef, aiEnabledRef,
    pending, monitorTimer, monitorDeps, goalRequests, newsRequests, storage,
    ticks, ops, last>>

\* ------------------------------------------------------------- news -----
News(type, text) == [type |-> type, text |-> text]

\* prev.slice(-13)
Slice13(feed) ==
  IF Len(feed) <= 13 THEN feed ELSE SubSeq(feed, Len(feed) - 12, Len(feed))

\* prev.slice(-12)
Slice12(feed) ==
  IF Len(feed) <= 12 THEN feed ELSE SubSeq(feed, Len(feed) - 11, Len(feed))

\* addNewsItem: setNewsFeed(prev => [...prev.slice(-12), item])
addNewsItem(feed, item) == Append(Slice12(feed), item)

\* ---------------------------------------------------------- effects -----
\* The dependency list of the goal monitor effect (fetchNewGoal changes with
\* isGeneratingGoal).
Deps(started, ai, goal, generating) == <<started, ai, goal, generating>>

\* gameStarted && aiEnabled && !currentGoal && !isGeneratingGoal
MonitorCond(deps) == deps[1] /\ deps[2] /\ ~IsGoal(deps[3]) /\ ~deps[4]

\* The monitor effect run with `deps`, last run with `old`: a change of the
\* dependencies clears the timer and arms a new one if the condition holds.
MonitorRun(timer, old, deps) == IF deps # old THEN MonitorCond(deps) ELSE timer

\* The passive effects of the committed state run: "Sync refs" and the monitor.
RunEffects ==
  /\ pending # "none"
  /\ gridRef' = grid /\ statsRef' = stats /\ goalRef' = currentGoal
  /\ aiEnabledRef' = aiEnabled
  /\ LET deps == Deps(gameStarted, aiEnabled, currentGoal, isGeneratingGoal)
     IN /\ monitorTimer' = MonitorRun(monitorTimer, monitorDeps, deps)
        /\ monitorDeps' = deps
  /\ pending' = "none"
  /\ last' = [op |-> "effects"]
  /\ UNCHANGED <<gameStarted, aiEnabled, grid, stats, selectedTool, currentGoal,
                 isGeneratingGoal, newsFeed, goalRequests, newsRequests, storage,
                 ticks, ops>>

\* A user event's updates are rendered synchronously: the effects still
\* pending run first, then those of the new state.  When the handler set no
\* state (`changed` false) nothing is rendered and nothing is flushed.
UserCommit(changed) ==
  IF changed
  THEN /\ gridRef' = grid' /\ statsRef' = stats' /\ goalRef' = currentGoal'
       /\ aiEnabledRef' = aiEnabled'
       /\ LET pre  == Deps(gameStarted, aiEnabled, currentGoal, isGeneratingGoal)
              post == Deps(gameStarted', aiEnabled', currentGoal', isGeneratingGoal')
          IN /\ monitorTimer' =
                  MonitorRun(MonitorRun(monitorTimer, monitorDeps, pre), pre, post)
             /\ monitorDeps' = post
       /\ pending' = "none"
  ELSE UNCHANGED <<gridRef, statsRef, goalRef, aiEnabledRef, monitorTimer,
                   monitorDeps, pending>>

\* A timer or promise callback's updates: committed, their effects pending.
\* (A tick's effects run long before the next tick: "tick" stays until then.)
StillPending(who) == IF pending = "tick" THEN "tick" ELSE who

AsyncCommit(who) ==
  /\ pending' = StillPending(who)
  /\ UNCHANGED <<gridRef, statsRef, goalRef, aiEnabledRef, monitorDeps>>

\* ------------------------------------------------------ tile clicks -----
\* currentGrid.map(row => [...row]) with newGrid[y][x] = tile
WithTile(g, x, y, tile) == [g EXCEPT ![y][x] = tile]

\* The deduction taken from the snapshot the handler read.
SpendFromSnapshot(st, cost) == Spread(st, [money |-> RSub(statsRef.money, RInt(cost))])

\* setStats(prev => ({ ...prev, money: prev.money - cost }))
Spend(st, cost) == Spread(st, [money |-> RSub(st.money, RInt(cost))])

\* Every tile counts as built.
OccupiedAlways(tile) == TRUE

\* currentTile.buildingType !== BuildingType.None (line 568)
Occupied(tile) == tile.buildingType # "None"

\* Every tile counts as empty.
VacantAlways(tile) == TRUE

\* currentTile.buildingType === BuildingType.None (line 610)
Vacant(tile) == tile.buildingType = "None"

\* handleTileClick(x, y) after its guards, on the snapshots it reads
\* (currentGrid, currentStats) and the state its updaters run on: what it
\* sets.  `setGrid` tells whether setGrid was called with `grid`.
Click(currentGrid, currentStats, st, feed, tool, x, y) ==
  LET currentTile == currentGrid[y][x]
      type == currentTile.buildingType
      affordable(cost) == RLe(RInt(cost), currentStats.money)
      none == [branch |-> "none", accepted |-> FALSE, cost |-> 0, setGrid |-> FALSE,
               grid |-> currentGrid, stats |-> st, newsFeed |-> feed,
               changed |-> FALSE]
      accept(branch, cost, tile, item) ==
        [branch |-> branch, accepted |-> TRUE, cost |-> cost, setGrid |-> TRUE,
         grid |-> WithTile(currentGrid, x, y, tile), stats |-> Spend(st, cost),
         newsFeed |-> IF item = <<>> THEN feed ELSE addNewsItem(feed, item[1]),
         changed |-> TRUE]
      reject(branch, cost, text) ==
        [branch |-> branch, accepted |-> FALSE, cost |-> cost, setGrid |-> FALSE,
         grid |-> currentGrid, stats |-> st,
         newsFeed |-> addNewsItem(feed, News("negative", text)), changed |-> TRUE]
  IN IF type # "None" /\ tool # "None" /\ HealthOf(currentTile) < 100
     THEN \* Repair
          LET repairCost == BUILDINGS[type].cost \div 2
          IN IF affordable(repairCost)
             THEN accept("repair", repairCost, Spread(currentTile, [health |-> 100]),
                         <<News("neutral", "Building repaired.")>>)
             ELSE reject("repair", repairCost, "Insufficient funds for repairs.")
     ELSE IF tool = "None"
     THEN \* Bulldoze
          IF Occupied(currentTile)
          THEN IF affordable(5)
               THEN accept("demolish", 5,
                           Spread(currentTile,
                                  [buildingType |-> "None", variant |-> 0,
                                   health |-> 100]),
                           <<>>)
               ELSE reject("demolish", 5, "Cannot afford demolition costs.")
          ELSE none
     ELSE IF tool = "Road" /\ type = "Road"
     THEN \* Road upgrade
          LET newVariant == (VariantOf(currentTile) + 1) % 4
          IN IF affordable(50)
             THEN accept("upgrade", 50, Spread(currentTile, [variant |-> newVariant]),
                         <<News("neutral", "Upgraded road")>>)
             ELSE reject("upgrade", 50, "Insufficient funds for road upgrade.")
     ELSE IF Vacant(currentTile)
     THEN \* Placement
          IF affordable(BUILDINGS[tool].cost)
          THEN accept("place", BUILDINGS[tool].cost,
                      Spread(currentTile,
                             [buildingType |-> tool, variant |-> 0, health |-> 100]),
                      <<>>)
          ELSE reject("place", BUILDINGS[tool].cost, "Treasury insufficient.")
     ELSE none

\* ------------------------------------------------------ user events -----
Welcome == News("positive", "Welcome to SkyMetropolis. Zoning approved.")

\* handleStart(enabled), and the "Initial Setup" effect that follows it.
Start(enabled) ==
  /\ ~gameStarted
  /\ aiEnabled' = enabled
  /\ gameStarted' = TRUE
  /\ newsFeed' = IF Len(newsFeed) = 0 THEN addNewsItem(newsFeed, Welcome) ELSE newsFeed
  /\ UNCHANGED <<grid, stats, selectedTool, currentGoal, isGeneratingGoal,
                 goalRequests, newsRequests, storage, ticks, ops>>
  /\ UserCommit(TRUE)
  /\ last' = [op |-> "start"]

\* setSelectedTool(type), from the toolbar
SelectTool(tool) ==
  /\ gameStarted
  /\ tool # selectedTool
  /\ selectedTool' = tool
  /\ UNCHANGED <<gameStarted, aiEnabled, grid, stats, currentGoal, isGeneratingGoal,
                 newsFeed, goalRequests, newsRequests, storage, ticks, ops>>
  /\ UserCommit(TRUE)
  /\ last' = [op |-> "tool"]

InGrid(x, y) == x >= 0 /\ x < GRID_SIZE /\ y >= 0 /\ y < GRID_SIZE

\* handleTileClick(x, y)
TileClick(x, y) ==
  /\ gameStarted
  /\ ops < MaxOps
  /\ ops' = ops + 1
  /\ IF InGrid(x, y)
     THEN \E r \in {Click(gridRef, statsRef, stats, newsFeed, selectedTool, x, y)} :
             /\ grid' = IF r.setGrid THEN r.grid ELSE grid
             /\ stats' = r.stats
             /\ newsFeed' = r.newsFeed
             /\ last' = [op |-> "click", x |-> x, y |-> y, tool |-> selectedTool,
                         branch |-> r.branch, accepted |-> r.accepted,
                         cost |-> r.cost, tile |-> gridRef[y][x],
                         read |-> statsRef.money, had |-> stats.money]
             /\ UNCHANGED <<gameStarted, aiEnabled, selectedTool, currentGoal,
                            isGeneratingGoal, goalRequests, newsRequests, storage,
                            ticks>>
             /\ UserCommit(r.changed)
     ELSE /\ last' = [op |-> "click", x |-> x, y |-> y, tool |-> selectedTool,
                      branch |-> "outside", accepted |-> FALSE, cost |-> 0]
          /\ UNCHANGED <<gameStarted, aiEnabled, grid, stats, selectedTool,
                         currentGoal, isGeneratingGoal, newsFeed, goalRequests,
                         newsRequests, storage, ticks>>
          /\ UserCommit(FALSE)

\* The reward is not deposited.
Unpaid(prev, goal) == prev

\* The reward deposited on the next day.
PaidNextDay(prev, goal) ==
  Spread(prev, [money |-> RAdd(prev.money, RInt(goal.reward)), day |-> prev.day + 1])

\* prev => ({ ...prev, money: prev.money + currentGoal.reward })
Paid(prev, goal) == Spread(prev, [money |-> RAdd(prev.money, RInt(goal.reward))])

\* handleClaimReward() without setCurrentGoal(null)
ClaimRewardKeepsGoal ==
  /\ gameStarted
  /\ ops < MaxOps
  /\ ops' = ops + 1
  /\ IF IsGoal(currentGoal) /\ currentGoal.completed
     THEN /\ stats' = Paid(stats, currentGoal)
          /\ newsFeed' = addNewsItem(newsFeed, News("positive", "Goal achieved!"))
          /\ last' = [op |-> "claim", paid |-> TRUE, goal |-> currentGoal]
          /\ UNCHANGED <<gameStarted, aiEnabled, grid, selectedTool, isGeneratingGoal,
                         goalRequests, newsRequests, storage, ticks, currentGoal>>
          /\ UserCommit(TRUE)
     ELSE /\ last' = [op |-> "claim", paid |-> FALSE, goal |-> currentGoal]
          /\ UNCHANGED <<gameStarted, aiEnabled, grid, stats, selectedTool,
                         currentGoal, isGeneratingGoal, newsFeed, goalRequests,
                         newsRequests, storage, ticks>>
          /\ UserCommit(FALSE)

\* handleClaimReward()
ClaimReward ==
  /\ gameStarted
  /\ ops < MaxOps
  /\ ops' = ops + 1
  /\ IF IsGoal(currentGoal) /\ currentGoal.completed
     THEN /\ stats' = Paid(stats, currentGoal)
          /\ newsFeed' = addNewsItem(newsFeed, News("positive", "Goal achieved!"))
          /\ currentGoal' = NoGoal
          /\ last' = [op |-> "claim", paid |-> TRUE, goal |-> currentGoal]
          /\ UNCHANGED <<gameStarted, aiEnabled, grid, selectedTool, isGeneratingGoal,
                         goalRequests, newsRequests, storage, ticks>>
          /\ UserCommit(TRUE)
     ELSE /\ last' = [op |-> "claim", paid |-> FALSE, goal |-> currentGoal]
          /\ UNCHANGED <<gameStarted, aiEnabled, grid, stats, selectedTool,
                         currentGoal, isGeneratingGoal, newsFeed, goalRequests,
                         newsRequests, storage, ticks>>
          /\ UserCommit(FALSE)

\* handleBudgetChange(category, value)
BudgetChange(category, value) ==
  /\ gameStarted
  /\ ops < MaxOps
  /\ ops' = ops + 1
  /\ stats.budget[category] # value
  /\ stats' = Spread(stats, [budget |-> [stats.budget EXCEPT ![category] = value]])
  /\ last' = [op |-> "budget"]
  /\ UNCHANGED <<gameStarted, aiEnabled, grid, selectedTool, currentGoal,
                 isGeneratingGoal, newsFeed, goalRequests, newsRequests, storage,
                 ticks>>
  /\ UserCommit(TRUE)

\* ------------------------------------------------------ persistence -----
\* `storage` is <<>> (no item) or <<record>>: the value JSON.parse returns for
\* the stored text.  JSON.stringify / JSON.parse keep finite numbers, strings,
\* booleans, null, arrays and the present fields of plain objects, which is
\* all a session's state holds.

\* handleSaveGame(); setItem may throw (quota).
SaveGame(quotaExceeded) ==
  /\ gameStarted
  /\ ops < MaxOps
  /\ ops' = ops + 1
  /\ IF quotaExceeded
     THEN /\ newsFeed' = addNewsItem(newsFeed, News("negative", "Save failed!"))
          /\ UNCHANGED storage
     ELSE /\ storage' = <<[grid |-> gridRef, stats |-> statsRef,
                           currentGoal |-> goalRef, newsFeed |-> newsFeed,
                           aiEnabled |-> aiEnabledRef]>>
          /\ UNCHANGED newsFeed
  /\ last' = [op |-> "save", ok |-> ~quotaExceeded, grid |-> gridRef,
              stats |-> statsRef]
  /\ UNCHANGED <<gameStarted, aiEnabled, grid, stats, selectedTool, currentGoal,
                 isGeneratingGoal, goalRequests, newsRequests, ticks>>
  /\ UserCommit(quotaExceeded)

\* The default whatever the save holds.
NullishEager(obj, field, dflt) == dflt

\* obj[field] ?? dflt
Nullish(obj, field, dflt) == IF Has(obj, field) THEN obj[field] ELSE dflt

\* { ...tile, health: 100 }
LoadedTileRepaired(tile) == Spread(tile, [health |-> 100])

\* { ...tile, health: tile.health ?? 100 }
LoadedTile(tile) == Spread(tile, [health |-> Nullish(tile, "health", 100)])

\* loadedGrid (lines 141-143)
LoadedGrid(saved) ==
  [y \in DOMAIN saved |-> [x \in DOMAIN saved[y] |-> LoadedTile(saved[y][x])]]

\* The stats object handleLoadGame passes to setStats (lines 147-171).
LoadedStats(s) ==
  Spread(s,
    [happiness |-> Nullish(s, "happiness", 100),
     pollution |-> Nullish(s, "pollution", 0),
     weather |-> Nullish(s, "weather", "sunny"),
     powerSupply |-> Nullish(s, "powerSupply", RInt(0)),
     powerDemand |-> Nullish(s, "powerDemand", 0),
     waterSupply |-> Nullish(s, "waterSupply", RInt(0)),
     waterDemand |-> Nullish(s, "waterDemand", 0),
     educationCoverage |-> Nullish(s, "educationCoverage", 100),
     healthcareCoverage |-> Nullish(s, "healthcareCoverage", 100),
     goodsSupply |-> Nullish(s, "goodsSupply", RInt(0)),
     goodsDemand |-> Nullish(s, "goodsDemand", 0),
     safetyCoverage |-> Nullish(s, "safetyCoverage", 100),
     trafficCongestion |-> Nullish(s, "trafficCongestion", 0),
     \* gameState.stats.budget || {...}: an object is truthy
     budget |-> Nullish(s, "budget", FullBudget)])

\* obj.field, with `undefined` for the value a missing field reads as.
Field(obj, field, undefined) == IF Has(obj, field) THEN obj[field] ELSE undefined

\* Stored text that JSON.parse rejects.
Unparseable == [syntaxError |-> TRUE]

\* Where handleLoadGame throws into its catch (line 179): in JSON.parse
\* (139), in gameState.grid.map (141), in gameState.stats.happiness (149,
\* after setGrid at 145), or nowhere.
LoadFault(gameState) ==
  IF gameState = Unparseable THEN "parse"
  ELSE IF ~Has(gameState, "grid") THEN "grid"
  ELSE IF ~Has(gameState, "stats") THEN "stats"
  ELSE "none"

\* handleLoadGame(), from the start screen.  The setters that ran before a
\* throw keep their effect.  A missing currentGoal or aiEnabled is set as
\* undefined, which every reader treats as null / false; a record with stats
\* but without newsFeed is not among the stored records of this model.
LoadGame ==
  /\ ~gameStarted
  /\ storage # <<>>
  /\ UNCHANGED <<selectedTool, isGeneratingGoal, goalRequests, newsRequests,
                 storage, ticks, ops>>
  /\ \E gameState \in {storage[1]} : \E fault \in {LoadFault(gameState)} :
       /\ IF fault \in {"parse", "grid"}
          THEN UNCHANGED <<grid, stats, currentGoal, newsFeed, aiEnabled, gameStarted>>
          ELSE IF fault = "stats"
          THEN /\ grid' = LoadedGrid(gameState.grid)
               /\ UNCHANGED <<stats, currentGoal, newsFeed, aiEnabled, gameStarted>>
          ELSE /\ grid' = LoadedGrid(gameState.grid)
               /\ stats' = LoadedStats(gameState.stats)
               /\ currentGoal' = Field(gameState, "currentGoal", NoGoal)
               /\ newsFeed' = addNewsItem(gameState.newsFeed,
                                          News("positive", "Game loaded. Welcome back, Mayor!"))
               /\ aiEnabled' = Field(gameState, "aiEnabled", FALSE)
               /\ gameStarted' = TRUE
       /\ last' = [op |-> "load", record |-> gameState, fault |-> fault]
       /\ UserCommit(fault \notin {"parse", "grid"})

\* The page is reloaded: a new App instance (lines 35-77) over the same
\* localStorage; the old page's timers and requests are gone.
Reload ==
  /\ gameStarted
  /\ ops < MaxOps
  /\ ops' = ops + 1
  /\ gameStarted' = FALSE /\ aiEnabled' = TRUE
  /\ grid' = createInitialGrid /\ stats' = InitialStats
  /\ selectedTool' = "Road"
  /\ currentGoal' = NoGoal /\ isGeneratingGoal' = FALSE /\ newsFeed' = <<>>
  /\ gridRef' = createInitialGrid /\ statsRef' = InitialStats
  /\ goalRef' = NoGoal /\ aiEnabledRef' = TRUE
  /\ pending' = "none" /\ monitorTimer' = FALSE
  /\ monitorDeps' = Deps(FALSE, TRUE, NoGoal, FALSE)
  /\ goalRequests' = 0 /\ newsRequests' = 0
  /\ last' = [op |-> "reload"]
  /\ UNCHANGED <<storage, ticks>>

\* --------------------------------------------------------- the tick -----
WeatherTypes == {"sunny", "rainy", "snowy"}

\* Math.floor(Math.random() * 40) + 20 lies in 20 .. 59.  A damage roll gives
\* every cell its draw; the rolls tried are: all highest, and 45 / 20 mixed.
DamageRolls ==
  {[c \in Coords \X Coords |-> 59],
   [c \in Coords \X Coords |-> IF (c[1] + c[2]) % 2 = 0 THEN 45 ELSE 20]}

\* builtTiles without the test on the health
BuiltTilesOfAnyHealth(g) ==
  {c \in Coords \X Coords :
     g[c[2]][c[1]].buildingType # "None" /\ g[c[2]][c[1]].buildingType # "Road"}

\* builtTiles (line 366), as coordinates <<x, y>>
BuiltTiles(g) ==
  {c \in Coords \X Coords :
     /\ g[c[2]][c[1]].buildingType # "None"
     /\ g[c[2]][c[1]].buildingType # "Road"
     /\ HealthOf(g[c[2]][c[1]]) > 0}

\* The loops with radius 3.
DamageBoxWide(center) ==
  {c \in Coords \X Coords :
     /\ c[1] >= Max(0, center[1] - 3) /\ c[1] <= Min(GRID_SIZE - 1, center[1] + 3)
     /\ c[2] >= Max(0, center[2] - 3) /\ c[2] <= Min(GRID_SIZE - 1, center[2] + 3)}

\* The cells the damage loops visit around `center` (lines 377-378).
DamageBox(center) ==
  {c \in Coords \X Coords :
     /\ c[1] >= Max(0, center[1] - 2) /\ c[1] <= Min(GRID_SIZE - 1, center[1] + 2)
     /\ c[2] >= Max(0, center[2] - 2) /\ c[2] <= Min(GRID_SIZE - 1, center[2] + 2)}

\* The cells of the box that are damaged (line 380).
HitTiles(g, center) ==
  {c \in DamageBox(center) :
     g[c[2]][c[1]].buildingType # "None" /\ HealthOf(g[c[2]][c[1]]) > 0}

\* newGrid after the damage loops (lines 374-387)
DamagedAt(g, hit, roll) ==
  [y \in Coords |-> [x \in Coords |->
     IF <<x, y>> \in hit
     THEN Spread(g[y][x], [health |-> Max(0, HealthOf(g[y][x]) - roll[<<x, y>>])])
     ELSE g[y][x]]]

Damaged(g, center, roll) == DamagedAt(g, HitTiles(g, center), roll)

\* builtTiles[Math.floor(Math.random() * builtTiles.length)]: the draws tried
\* are the first and the last of builtTiles, which is in row-major order.
Rank(c) == c[2] * GRID_SIZE + c[1]

Extremes(built) ==
  {c \in built : \/ \A e \in built : Rank(c) <= Rank(e)
               \/ \A e \in built : Rank(c) >= Rank(e)}

CenterDraws(currentGrid) == Extremes(BuiltTiles(currentGrid))

\* What the disaster simulation (lines 339-400) can do to currentGrid: the
\* roll names no disaster (disasterType stays '') ...
NoDisaster(currentGrid) ==
  [occurred |-> FALSE, grid |-> currentGrid, center |-> <<0, 0>>, hitCount |-> 0,
   disasterType |-> ""]

DisasterTypes == {"Fire", "Storm"}

\* ... or it names one and builtTiles is empty (line 368) ...
Fizzles(currentGrid) ==
  IF BuiltTiles(currentGrid) = {}
  THEN {[occurred |-> FALSE, grid |-> currentGrid, center |-> <<0, 0>>,
         hitCount |-> 0, disasterType |-> t] : t \in DisasterTypes}
  ELSE {}

\* ... or it names one that strikes around one of builtTiles.  The type only
\* words the news item; the strikes tried are fires.
Strikes(currentGrid) ==
  {[occurred |-> TRUE, grid |-> Damaged(currentGrid, center, roll),
    center |-> center, hitCount |-> Cardinality(HitTiles(currentGrid, center)),
    disasterType |-> "Fire"] :
     center \in CenterDraws(currentGrid), roll \in DamageRolls}

Disasters(currentGrid) ==
  {NoDisaster(currentGrid)} \cup Fizzles(currentGrid) \cup Strikes(currentGrid)

\* The cells whose buildingType has no entry in BUILDINGS.
UnknownTiles(g) ==
  {c \in Coords \X Coords : g[c[2]][c[1]].buildingType \notin DOMAIN BUILDINGS}

\* fetchNews without its test of aiEnabledRef.
StartsNewsWithoutAi(disasterOccurred, ai, wantNews) == ~disasterOccurred /\ wantNews

\* fetchNews called whatever the disaster simulation did.
StartsNewsUnguarded(disasterOccurred, ai, wantNews) == ai /\ wantNews

\* 'if (!disasterOccurred) fetchNews()' (line 524) gets past fetchNews' own
\* test (line 109): `ai` is aiEnabledRef.current, `wantNews` the draw
\* Math.random() <= 0.15.
StartsNews(disasterOccurred, ai, wantNews) == ~disasterOccurred /\ ai /\ wantNews

\* The passes reading the grid the disaster simulation leaves.
AccountedGridAfterDisaster(d) == d.grid

\* The grid pass 1 and pass 2 read: currentGrid (line 252), before the
\* disaster simulation has run on its copy of it (line 374).
AccountedGrid(d) == gridRef

\* One run of the setInterval callback (lines 211-526).  `d` is one of
\* Disasters(gridRef) and `currentWeather` the weather roll; `fresh` tells whether
\* the stats updater runs after the pending effects (at render) or before
\* them (eagerly), which decides the goalRef / aiEnabledRef it reads;
\* `wantNews` is fetchNews' draw.
Tick(d, currentWeather, fresh, wantNews) ==
  /\ gameStarted
  /\ pending # "tick"
  /\ ticks < MaxTicks
  /\ ticks' = ticks + 1
  /\ UNCHANGED <<gameStarted, aiEnabled, selectedTool, isGeneratingGoal,
                 goalRequests, storage, ops, monitorTimer>>
  /\ IF UnknownTiles(gridRef) # {}
     THEN \* BUILDINGS[tile.buildingType] is undefined and config.maintenanceCost
          \* (line 260) throws out of the callback before anything is set.
          /\ last' = [op |-> "tick", fault |-> TRUE, prev |-> stats,
                      grid |-> gridRef, budget |-> statsRef.budget,
                      disaster |-> FALSE, center |-> <<0, 0>>, roll |-> "",
                      goal |-> goalRef,
                      ai |-> aiEnabledRef, fetched |-> FALSE, had |-> currentGoal]
          /\ UNCHANGED <<grid, stats, currentGoal, newsFeed, newsRequests, pending,
                         gridRef, statsRef, goalRef, aiEnabledRef, monitorDeps>>
     ELSE /\ \E acc \in {Accounts(AccountedGrid(d), statsRef.budget)} :
             \E newStats \in {NewStats(stats, acc, d.occurred, currentWeather)} :
             LET goal == IF fresh THEN currentGoal ELSE goalRef
                 ai   == IF fresh THEN aiEnabled ELSE aiEnabledRef
                 fetch == StartsNews(d.occurred, aiEnabledRef, wantNews)
             IN /\ fresh => pending # "none"
                /\ fetch => newsRequests < MaxNewsRequests
                /\ grid' = IF d.occurred THEN d.grid ELSE grid
                /\ newsFeed' = IF d.occurred
                               THEN addNewsItem(newsFeed, News("negative", "DISASTER!"))
                               ELSE newsFeed
                /\ stats' = newStats
                /\ currentGoal' = GoalAfterTick(currentGoal, goal, ai, newStats,
                                                acc.buildingCounts)
                /\ newsRequests' = IF fetch THEN newsRequests + 1 ELSE newsRequests
                /\ last' = [op |-> "tick", fault |-> FALSE, prev |-> stats,
                            grid |-> gridRef, budget |-> statsRef.budget,
                            disaster |-> d.occurred, center |-> d.center,
                            roll |-> d.disasterType,
                            goal |-> goal, ai |-> ai, fetched |-> fetch,
                            had |-> currentGoal]
          /\ AsyncCommit("tick")

\* ------------------------------------------------- goal generation ------
\* The monitor's timer as an interval: it stays armed after it fires.
MonitorFiresRepeating ==
  /\ monitorTimer
  /\ IF monitorDeps[4] \/ ~aiEnabledRef
     THEN /\ UNCHANGED <<isGeneratingGoal, goalRequests, pending>>
          /\ last' = [op |-> "monitor", started |-> FALSE]
     ELSE /\ isGeneratingGoal' = TRUE
          /\ goalRequests' = goalRequests + 1
          /\ pending' = StillPending("async")
          /\ last' = [op |-> "monitor", started |-> TRUE,
                      busy |-> isGeneratingGoal, goal |-> currentGoal]
  /\ UNCHANGED <<gameStarted, aiEnabled, grid, stats, selectedTool, currentGoal,
                 newsFeed, newsRequests, storage, ticks, ops, gridRef, statsRef,
                 goalRef, aiEnabledRef, monitorDeps, monitorTimer>>

\* The monitor's timeout fires and calls fetchNewGoal (lines 91-94, 200-202).
\* The isGeneratingGoal fetchNewGoal tests is the one of the render that armed
\* the timer.
MonitorFires ==
  /\ monitorTimer
  /\ monitorTimer' = FALSE
  /\ IF monitorDeps[4] \/ ~aiEnabledRef
     THEN /\ UNCHANGED <<isGeneratingGoal, goalRequests, pending>>
          /\ last' = [op |-> "monitor", started |-> FALSE]
     ELSE /\ isGeneratingGoal' = TRUE
          /\ goalRequests' = goalRequests + 1
          /\ pending' = StillPending("async")
          /\ last' = [op |-> "monitor", started |-> TRUE,
                      busy |-> isGeneratingGoal, goal |-> currentGoal]
  /\ UNCHANGED <<gameStarted, aiEnabled, grid, stats, selectedTool, currentGoal,
                 newsFeed, newsRequests, storage, ticks, ops, gridRef, statsRef,
                 goalRef, aiEnabledRef, monitorDeps>>

\* What generateCityGoal can deliver: a goal, null, or a failure.
GoalSet ==
  {[present |-> TRUE, targetType |-> "money", targetValue |-> INITIAL_MONEY,
    reward |-> 500, completed |-> FALSE],
   [present |-> TRUE, targetType |-> "population", targetValue |-> 5,
    reward |-> 200, completed |-> FALSE],
   [present |-> TRUE, targetType |-> "building_count", targetValue |-> 1,
    buildingType |-> "Road", reward |-> 300, completed |-> FALSE]}

GoalOutcomes ==
  {[kind |-> "goal", goal |-> g] : g \in GoalSet}
  \cup {[kind |-> "null"], [kind |-> "throws"]}

\* fetchNewGoal resumes with the generator's outcome (lines 98-104).  That is
\* more than the 1000 ms of line 96 after the call: the render that shows
\* isGeneratingGoal has had its effects run.
GoalArrives(outcome) ==
  /\ goalRequests > 0
  /\ monitorDeps[4]
  /\ goalRequests' = goalRequests - 1
  /\ CASE outcome.kind = "goal" ->
            /\ currentGoal' = outcome.goal
            /\ isGeneratingGoal' = FALSE
            /\ pending' = StillPending("async")
       [] outcome.kind = "null" ->
            /\ isGeneratingGoal' = FALSE
            /\ pending' = StillPending("async")
            /\ UNCHANGED currentGoal
       [] outcome.kind = "throws" ->
            \* the await rejects: the rest of fetchNewGoal never runs
            UNCHANGED <<currentGoal, isGeneratingGoal, pending>>
  /\ last' = [op |-> "goal", kind |-> outcome.kind, had |-> currentGoal]
  /\ UNCHANGED <<gameStarted, aiEnabled, grid, stats, selectedTool, newsFeed,
                 newsRequests, storage, ticks, ops, gridRef, statsRef, goalRef,
                 aiEnabledRef, monitorTimer, monitorDeps>>

\* fetchNews resumes with generateNewsEvent's outcome (lines 110-111).
NewsArrives(item) ==
  /\ newsRequests > 0
  /\ newsRequests' = newsRequests - 1
  /\ IF item # <<>>
     THEN /\ newsFeed' = addNewsItem(newsFeed, item[1])
          /\ pending' = StillPending("async")
     ELSE UNCHANGED <<newsFeed, pending>>
  /\ last' = [op |-> "news"]
  /\ UNCHANGED <<gameStarted, aiEnabled, grid, stats, selectedTool, currentGoal,
                 isGeneratingGoal, goalRequests, storage, ticks, ops, gridRef,
                 statsRef, goalRef, aiEnabledRef, monitorTimer, monitorDeps>>

NewsOutcomes == {<<>>, <<News("neutral", "city news")>>}

\* ----------------------------------------------------- scenarios --------
\* A tile as placement (line 617) and later damage leave it.
Built(x, y, type, variant, health) ==
  [x |-> x, y |-> y, buildingType |-> type, variant |-> variant, health |-> health]

\* The initial grid with `tiles` on it.
GridOf(tiles) ==
  [y \in Coords |-> [x \in Coords |->
     IF \E t \in tiles : t.x = x /\ t.y = y
     THEN CHOOSE t \in tiles : t.x = x /\ t.y = y
     ELSE createInitialGrid[y][x]]]

CityOf(money, population, weather, budget) ==
  Spread(InitialStats, [money |-> RInt(money), population |-> population,
                        weather |-> weather, budget |-> budget, day |-> 40])

\* A city out of money: a road, a damaged estate and a ruined park.
BrokeGrid ==
  GridOf({Built(0, 0, "Road", 1, 100), Built(1, 0, "Residential", 0, 40),
          Built(0, 1, "Park", 0, 0)})

\* A city earning 51 a tick: income 90, maintenance 39.
EarningGrid ==
  GridOf({Built(0, 0, "Industrial", 0, 100), Built(1, 0, "Industrial", 0, 100),
          Built(2, 0, "MixedUse", 0, 100), Built(3, 0, "PowerPlant", 0, 100),
          Built(0, 1, "WaterPump", 0, 100), Built(1, 1, "Road", 0, 100),
          Built(2, 1, "Road", 0, 100), Built(3, 1, "Road", 0, 100),
          Built(0, 2, "Road", 0, 100)})

MoneyGoal ==
  [present |-> TRUE, targetType |-> "money", targetValue |-> 30000,
   reward |-> 500, completed |-> FALSE]

SaveOf(g, st, goal, feed, ai) ==
  [grid |-> g, stats |-> st, currentGoal |-> goal, newsFeed |-> feed, aiEnabled |-> ai]

\* A save that an earlier session of this program has written.
EarningSave ==
  SaveOf(EarningGrid, CityOf(29948, 0, "sunny", FullBudget), MoneyGoal,
         <<Welcome>>, TRUE)

\* ------------------------------------------------- the session ----------
\* A freshly loaded page (lines 35-77).
FreshPage ==
  /\ gameStarted = FALSE /\ aiEnabled = TRUE
  /\ grid = createInitialGrid /\ stats = InitialStats
  /\ selectedTool = "Road"
  /\ currentGoal = NoGoal /\ isGeneratingGoal = FALSE /\ newsFeed = <<>>
  /\ gridRef = createInitialGrid /\ statsRef = InitialStats
  /\ goalRef = NoGoal /\ aiEnabledRef = TRUE
  /\ pending = "none" /\ monitorTimer = FALSE
  /\ monitorDeps = Deps(FALSE, TRUE, NoGoal, FALSE)
  /\ goalRequests = 0 /\ newsRequests = 0
  /\ ticks = 0 /\ ops = 0
  /\ last = [op |-> "init"]

\* Goals and their generation: a new game or the saved earning city, roads
\* built on one cell, ticks without disaster or weather change.
Init ==
  /\ FreshPage
  /\ storage \in {<<>>, <<EarningSave>>}

Next ==
  \/ \E enabled \in BOOLEAN : Start(enabled)
  \/ LoadGame
  \/ TileClick(3, 3)
  \/ ClaimReward
  \/ BudgetChange("power", 50)
  \/ \E fresh \in BOOLEAN : Tick(NoDisaster(gridRef), stats.weather, fresh, FALSE)
  \/ MonitorFires
  \/ \E o \in GoalOutcomes : GoalArrives(o)
  \/ RunEffects

Spec == Init /\ [][Next]_vars

\* The same with the scheduling the browser guarantees: pending effects run,
\* an armed timeout fires, a request in flight comes to an end.
SpecFair ==
  /\ Spec
  /\ WF_vars(RunEffects)
  /\ WF_vars(MonitorFires)
  /\ WF_vars(\E o \in GoalOutcomes : GoalArrives(o))

\* A goal's predicate (lines 509-514) on stats `st` and grid `g`.
PredicateHolds(goal, st, g) ==
  CASE goal.targetType = "money" ->
         st.money[1] >= goal.targetValue * st.money[2]
    [] goal.targetType = "population" ->
         st.population >= goal.targetValue
    [] goal.targetType = "building_count" ->
         Cardinality({c \in Coords \X Coords :
                        g[c[2]][c[1]].buildingType = goal.buildingType})
           >= goal.targetValue

Active(goal) == IsGoal(goal) /\ ~goal.completed

C5_CompletionLatches ==
  [][(IsGoal(currentGoal) /\ currentGoal.completed)
     => \/ currentGoal' = currentGoal
        \/ last'.op = "claim" /\ currentGoal' = NoGoal]_vars

\* A tick has run on a completed money goal whose target the money has
\* fallen below, and the goal is still there, completed.
C5_Witness ==
  /\ last.op = "tick"
  /\ IsGoal(last.had) /\ last.had.completed /\ last.had.targetType = "money"
  /\ ~PredicateHolds(last.had, stats, gridRef)
  /\ currentGoal = last.had

\* C6: claiming a completed goal adds its reward to money and changes no
\* other stats field, appends one positive news item and leaves no goal; any
\* other claim changes neither grid, stats, goal nor news feed.
C6_ClaimReward ==
  [][last'.op = "claim"
     => IF IsGoal(currentGoal) /\ currentGoal.completed
        THEN /\ stats' = [stats EXCEPT !.money =
                            <<stats.money[1] + currentGoal.reward * stats.money[2],
                              stats.money[2]>>]
             /\ Len(newsFeed') = Len(Slice12(newsFeed)) + 1
             /\ SubSeq(newsFeed', 1, Len(newsFeed') - 1) = Slice12(newsFeed)
             /\ newsFeed'[Len(newsFeed')].type = "positive"
             /\ currentGoal' = NoGoal
             /\ grid' = grid
        ELSE UNCHANGED <<grid, stats, currentGoal, newsFeed>>]_vars

\* The reward of the completed 30000 goal has been claimed.
C6_Witness ==
  /\ last.op = "claim" /\ last.paid
  /\ last.goal.reward = 500
  /\ stats.money = <<30550, 1>>
  /\ currentGoal = NoGoal

\* C7: at most one goal request is in flight, and a request starts only
\* while isGeneratingGoal is false and there is no goal.
C7_OneRequestInFlight ==
  [][/\ goalRequests' <= 1
     /\ goalRequests' > goalRequests
          => ~isGeneratingGoal /\ ~IsGoal(currentGoal)]_vars

\* A request started after ticks and the claim of an earlier goal.
C7_Witness ==
  /\ last.op = "monitor" /\ last.started
  /\ goalRequests = 1
  /\ ticks > 0
  /\ \E i \in DOMAIN newsFeed : newsFeed[i].text = "Goal achieved!"

\* C8: a goal request that ends without a goal, by null or by failure, is
\* eventually followed by another request.
C8_RetriedAfterFailure ==
  (last.op = "goal" /\ last.kind \in {"null", "throws"}) ~> (goalRequests > 0)

\* ------------------------------------------------- the economy ----------
\* Cities a session can have built, as <<grid, stats>>.
\* A powered estate close to its housing cap, and a ruined park.
Village ==
  <<GridOf({Built(0, 0, "Residential", 0, 100), Built(1, 0, "PowerPlant", 0, 100),
            Built(2, 0, "WaterPump", 0, 100), Built(3, 0, "Road", 2, 100),
            Built(1, 1, "Park", 0, 0)}),
    CityOf(1000, 48, "sunny", FullBudget)>>

\* Airports and industry without roads, power, water or housing, and people
\* left over from demolished estates.
Smog ==
  <<GridOf({Built(0, 0, "Commercial", 0, 100), Built(1, 0, "Airport", 0, 100),
            Built(2, 0, "Airport", 0, 100), Built(3, 0, "Airport", 0, 100),
            Built(0, 1, "Airport", 0, 70), Built(1, 1, "Industrial", 0, 100),
            Built(2, 1, "Industrial", 0, 100), Built(3, 1, "Airport", 0, 100)}),
    CityOf(5, 30, "rainy", FullBudget)>>

\* Parks, stadiums and every service around one estate.
Garden ==
  <<GridOf({Built(0, 0, "Residential", 0, 100), Built(1, 0, "Park", 0, 100),
            Built(2, 0, "Park", 0, 100), Built(3, 0, "Park", 0, 100),
            Built(0, 1, "Park", 0, 100), Built(1, 1, "Park", 0, 100),
            Built(2, 1, "Stadium", 0, 100), Built(3, 1, "Stadium", 0, 100),
            Built(0, 2, "School", 0, 100), Built(1, 2, "Hospital", 0, 100),
            Built(2, 2, "PoliceStation", 0, 100), Built(3, 2, "PowerPlant", 0, 100),
            Built(0, 3, "WaterPump", 0, 100), Built(1, 3, "Road", 0, 100),
            Built(2, 3, "Road", 1, 100), Built(3, 3, "Road", 3, 60)}),
    CityOf(5000, 10, "snowy",
           [FullBudget EXCEPT !.environment = 50, !.education = 0])>>

\* One estate, one power plant and one water pump on a new island.
Hamlet ==
  <<GridOf({Built(1, 1, "Residential", 0, 100), Built(2, 1, "PowerPlant", 0, 100),
            Built(4, 4, "WaterPump", 0, 100)}),
    CityOf(1000, 0, "sunny", FullBudget)>>

\* Two estates without power or water.
Twins ==
  <<GridOf({Built(0, 0, "Residential", 0, 100), Built(4, 2, "Residential", 0, 100)}),
    CityOf(200, 60, "rainy", FullBudget)>>

\* Three campers around a park with power and water, and nowhere to live.
Camp ==
  <<GridOf({Built(0, 0, "Road", 0, 100), Built(1, 0, "Park", 0, 100),
            Built(2, 0, "PowerPlant", 0, 100), Built(3, 0, "WaterPump", 0, 100)}),
    CityOf(500, 3, "snowy", FullBudget)>>

\* A road between a ruined estate and a ruined park.
Ruins ==
  <<GridOf({Built(0, 0, "Residential", 0, 0), Built(1, 0, "Road", 1, 100),
            Built(2, 0, "Park", 0, 0)}),
    CityOf(300, 10, "rainy", FullBudget)>>

TickScenarios == {Village, Smog, Garden, Hamlet, Twins, Camp, Ruins}

\* A running game without AI over city `c`, with `tool` selected and every
\* effect run.
Running(c, tool) ==
  /\ gameStarted = TRUE /\ aiEnabled = FALSE
  /\ grid = c[1] /\ stats = c[2]
  /\ selectedTool = tool
  /\ currentGoal = NoGoal /\ isGeneratingGoal = FALSE /\ newsFeed = <<Welcome>>
  /\ gridRef = c[1] /\ statsRef = c[2]
  /\ goalRef = NoGoal /\ aiEnabledRef = FALSE
  /\ pending = "none" /\ monitorTimer = FALSE
  /\ monitorDeps = Deps(TRUE, FALSE, NoGoal, FALSE)
  /\ goalRequests = 0 /\ newsRequests = 0
  /\ storage = <<>>
  /\ ticks = 0 /\ ops = 0
  /\ last = [op |-> "init"]

InitTick == \E c \in TickScenarios : Running(c, "None")

\* The draws of one tick: any weather without a disaster, or a disaster.
TickDraws(currentGrid, weather) ==
  {<<NoDisaster(currentGrid), w>> : w \in WeatherTypes}
  \cup {<<d, weather>> : d \in Fizzles(currentGrid) \cup Strikes(currentGrid)}

NextTick ==
  \/ \E dw \in TickDraws(gridRef, stats.weather) : Tick(dw[1], dw[2], FALSE, FALSE)
  \/ TileClick(0, 0)
  \/ RunEffects

SpecTick == InitTick /\ [][NextTick]_vars

\* totalHousing (lines 334-337), counted on grid g
HousingOn(g) ==
  50 * Cardinality({c \in Coords \X Coords : g[c[2]][c[1]].buildingType = "Residential"})
  + 100 * Cardinality({c \in Coords \X Coords : g[c[2]][c[1]].buildingType = "MixedUse"})

Percentages ==
  {"happiness", "pollution", "educationCoverage", "healthcareCoverage",
   "safetyCoverage", "trafficCongestion"}

\* C1: after every tick each of happiness, pollution, educationCoverage,
\* healthcareCoverage, safetyCoverage and trafficCongestion is an integer in
\* 0 .. 100.
C1_StatRanges ==
  last.op = "tick" => \A f \in Percentages : stats[f] \in 0 .. 100

\* A tick has run on the city whose pollution sum is above 100 and whose
\* happiness sum is below 0, and both were clamped.
C1_Witness ==
  /\ last.op = "tick"
  /\ PollutionUnclamped(Accounts(last.grid, last.budget).buildingCounts) > 100
  /\ stats.pollution = 100
  /\ stats.happiness = 0
  /\ stats.trafficCongestion = 100

\* C2 as stated: immediately after every tick, population <= totalHousing of
\* the grid the tick read.
C2_PopulationWithinHousing ==
  last.op = "tick" => stats.population <= HousingOn(last.grid)

\* C2, as the code has it: immediately after a tick population <= totalHousing
\* when the grid the tick read has housing or the prior population was 0;
\* with no housing and a prior population p > 0 the population is
\* max(0, p - 5).
C2_PopulationAfterTick ==
  last.op = "tick" =>
    IF HousingOn(last.grid) > 0 \/ last.prev.population = 0
    THEN stats.population <= HousingOn(last.grid)
    ELSE stats.population = Max(0, last.prev.population - 5)

\* A tick after the demolition of the only estate: no housing, people left.
C2_Witness ==
  /\ last.op = "tick"
  /\ HousingOn(last.grid) = 0
  /\ last.grid[0][0].buildingType = "None"
  /\ last.prev.population > 5
  /\ stats.population = last.prev.population - 5

\* e is min(1, supply / demand) when demand > 0, and 1 when demand is 0.
IsEfficiency(e, supply, demand) ==
  /\ RLe(RInt(0), e) /\ RLe(e, RInt(1))
  /\ IF demand > 0
     THEN IF RLt(supply, RInt(demand))
          THEN RMul(e, RInt(demand)) = supply
          ELSE e = RInt(1)
     ELSE e = RInt(1)

\* C14: in every tick powerEfficiency, waterEfficiency and goodsEfficiency
\* lie in [0, 1], equal min(1, supply / demand) when demand > 0 and equal 1
\* when the demand is 0, whatever the supply.
C14_Efficiencies ==
  last.op = "tick" =>
    \E a \in {Accounts(last.grid, last.budget)} :
      /\ IsEfficiency(a.powerEfficiency, a.pSupply, a.pDemand)
      /\ IsEfficiency(a.waterEfficiency, a.wSupply, a.wDemand)
      /\ IsEfficiency(a.goodsEfficiency, a.gSupply, a.gDemand)

\* A tick on industry whose only shop was demolished: goods are supplied and
\* nothing demands them (efficiency 1), power is demanded and none supplied
\* (efficiency 0).
C14_Witness ==
  /\ last.op = "tick"
  /\ \E a \in {Accounts(last.grid, last.budget)} :
       /\ a.gDemand = 0 /\ RLt(RInt(0), a.gSupply) /\ a.goodsEfficiency = RInt(1)
       /\ a.pDemand > 0 /\ a.pSupply = RInt(0) /\ a.powerEfficiency = RInt(0)

\* The cells of g that hold `type`.
CellsOf(g, type) == {c \in Coords \X Coords : g[c[2]][c[1]].buildingType = type}

\* g holds exactly one Residential, one PowerPlant and one WaterPump, all at
\* full health, and nothing else.
IsReferenceGrid(g) ==
  /\ \A type \in {"Residential", "PowerPlant", "WaterPump"} :
       Cardinality(CellsOf(g, type)) = 1
  /\ Cardinality(CellsOf(g, "None")) = GRID_SIZE * GRID_SIZE - 3
  /\ \A c \in Coords \X Coords : HealthOf(g[c[2]][c[1]]) = 100

\* C15: a tick on the reference grid with all budgets at 100 and population
\* 0 yields powerSupply 50, powerDemand 3, waterSupply 50, waterDemand 1,
\* both efficiencies 1, population 5 and money lower by exactly 35.
C15_ReferenceTick ==
  (/\ last.op = "tick" /\ IsReferenceGrid(last.grid)
   /\ last.budget = FullBudget /\ last.prev.population = 0)
  => /\ stats.powerSupply = RInt(50) /\ stats.powerDemand = 3
     /\ stats.waterSupply = RInt(50) /\ stats.waterDemand = 1
     /\ \E a \in {Accounts(last.grid, last.budget)} :
          /\ a.powerEfficiency = RInt(1) /\ a.waterEfficiency = RInt(1)
          /\ a.dailyIncome = RInt(0) /\ a.dailyMaintenance = RInt(35)
     /\ stats.population = 5
     /\ stats.money = RSub(last.prev.money, RInt(35))

\* The first tick of the hamlet: 1000 - 35.
C15_Witness ==
  /\ last.op = "tick" /\ IsReferenceGrid(last.grid)
  /\ last.budget = FullBudget /\ last.prev.population = 0
  /\ last.prev.money = RInt(1000) /\ stats.money = RInt(965)
  /\ stats.population = 5

\* No power and no water is supplied while both are demanded.
Starved(a) ==
  /\ a.pSupply = RInt(0) /\ a.wSupply = RInt(0)
  /\ a.pDemand > 0 /\ a.wDemand > 0

\* C16 as stated: in a starved tick basicUtilEfficiency is 0, nothing is
\* added to population growth or income, and the population stays at its
\* prior value.
C16_StarvedPopulationStays ==
  last.op = "tick" =>
    \E a \in {Accounts(last.grid, last.budget)} :
      Starved(a) => /\ a.basicUtilEfficiency = RInt(0)
                    /\ a.dailyPopGrowth = RInt(0) /\ a.dailyIncome = RInt(0)
                    /\ stats.population = last.prev.population

\* C16, as the code has it: in a starved tick basicUtilEfficiency, the
\* population growth and the income are 0 and money falls by the maintenance;
\* the population stays at its prior value p when p is within the housing,
\* falls to the housing when p is above it, and to max(0, p - 5) when there
\* is no housing.
C16_StarvedTick ==
  last.op = "tick" =>
    \E a \in {Accounts(last.grid, last.budget)} :
      Starved(a) => /\ a.basicUtilEfficiency = RInt(0)
                    /\ a.dailyPopGrowth = RInt(0) /\ a.dailyIncome = RInt(0)
                    /\ stats.money = RSub(last.prev.money, a.dailyMaintenance)
                    /\ stats.population =
                         IF HousingOn(last.grid) = 0
                         THEN Max(0, last.prev.population - 5)
                         ELSE Min(last.prev.population, HousingOn(last.grid))

\* A tick on the two estates alone: demand 2 and 2, supply 0 and 0, the 60
\* residents stay.
C16_Witness ==
  /\ last.op = "tick" /\ last.grid = Twins[1]
  /\ Starved(Accounts(last.grid, last.budget))
  /\ stats.powerDemand = 2 /\ stats.waterDemand = 2
  /\ last.prev.population = 60 /\ stats.population = 60

\* The slider that funds each type; the other types have none.
FundedBy ==
  [Road |-> "infrastructure", Airport |-> "infrastructure", PowerPlant |-> "power",
   WaterPump |-> "water", School |-> "education", Hospital |-> "healthcare",
   PoliceStation |-> "safety", Park |-> "environment", Stadium |-> "environment"]

\* What one tile of `type` is charged per tick under `budget`.
Upkeep(type, budget) ==
  IF type \in DOMAIN FundedBy
  THEN Rat(BUILDINGS[type].maintenanceCost * budget[FundedBy[type]], 100)
  ELSE RInt(BUILDINGS[type].maintenanceCost)

UpkeepOf(g, budget) ==
  RTileSum([y \in Coords |-> [x \in Coords |-> Upkeep(g[y][x].buildingType, budget)]])

\* C18 as stated: the maintenance a tick charges is the catalog maintenance
\* of every building, whatever the budget sliders.
C18_MaintenanceIgnoresBudget ==
  last.op = "tick" =>
    Accounts(last.grid, last.budget).dailyMaintenance = UpkeepOf(last.grid, FullBudget)

\* C18, as the code has it: a tick charges every building its catalog
\* maintenance times the slider of its category / 100 (roads and airports:
\* infrastructure; power plants; water pumps; schools; hospitals; police;
\* parks and stadiums: environment), and in full for the other types.
C18_MaintenanceScalesWithBudget ==
  last.op = "tick" =>
    Accounts(last.grid, last.budget).dailyMaintenance = UpkeepOf(last.grid, last.budget)

\* A tick on the garden city with environment at 50 and education at 0: its
\* parks and stadiums are charged half, its school nothing.
C18_Witness ==
  /\ last.op = "tick" /\ last.grid = Garden[1]
  /\ last.budget.environment = 50 /\ last.budget.education = 0
  /\ stats.money = RSub(last.prev.money, RInt(213))
  /\ UpkeepOf(last.grid, FullBudget) = RInt(343)

\* max(|x - ex|, |y - ey|) for cell c and epicenter e
Chebyshev(c, e) == Max(Abs(c[1] - e[1]), Abs(c[2] - e[2]))

\* C12: a disaster changes only built tiles of health > 0 within distance 2
\* of its epicenter, and of those only lowers the health; every tile outside
\* the box, and every empty or ruined tile inside it, is as before.
C12_DisasterContained ==
  [][(last'.op = "tick" /\ last'.disaster)
     => \A c \in Coords \X Coords :
          LET before == grid[c[2]][c[1]]
              after  == grid'[c[2]][c[1]]
          IN IF /\ Chebyshev(c, last'.center) <= 2
                /\ before.buildingType # "None"
                /\ HealthOf(before) > 0
             THEN /\ after = Spread(before, [health |-> after.health])
                  /\ after.health \in 0 .. HealthOf(before)
             ELSE after = before]_vars

\* A disaster struck at the corner (0, 0) of the village: the estate lost
\* health, the ruined park and the empty cell inside the box and the road
\* outside it are as they were.
C12_Witness ==
  /\ last.op = "tick" /\ last.disaster /\ last.center = <<0, 0>>
  /\ grid[0][0].health < last.grid[0][0].health
  /\ last.grid[1][1].health = 0 /\ grid[1][1] = last.grid[1][1]
  /\ grid[2][2].buildingType = "None" /\ grid[2][2] = last.grid[2][2]
  /\ last.grid[0][3].buildingType = "Road" /\ grid[0][3] = last.grid[0][3]

\* ------------------------------------------------- the player -----------
\* The city out of money, with 5 in the treasury.
Broke == <<BrokeGrid, CityOf(5, 20, "rainy", FullBudget)>>

InitClick == Running(Broke, "Road")

\* The road, the damaged estate and an empty cell; bulldozer and road tool;
\* ticks without disaster or weather change.
NextClick ==
  \/ \E tool \in {"None", "Road"} : SelectTool(tool)
  \/ \E c \in {<<0, 0>>, <<1, 0>>, <<2, 2>>} : TileClick(c[1], c[2])
  \/ Tick(NoDisaster(gridRef), stats.weather, FALSE, FALSE)
  \/ RunEffects

SpecClick == InitClick /\ [][NextClick]_vars

\* The cost of the spend action a click on `tile` with `tool` attempted.
SpendCost(branch, tile, tool) ==
  CASE branch = "place"    -> BUILDINGS[tool].cost
    [] branch = "demolish" -> 5
    [] branch = "repair"   -> BUILDINGS[tile.buildingType].cost \div 2
    [] branch = "upgrade"  -> 50

SpendBranches == {"place", "demolish", "repair", "upgrade"}

\* C3: a placement, demolition, repair or road upgrade attempted while money
\* is less than its cost is rejected: the grid and every stats field stay as
\* they are and the news feed gets exactly one item, of type negative.
C3_InsufficientFundsRejected ==
  [][(/\ last'.op = "click"
      /\ last'.branch \in SpendBranches
      /\ RLt(stats.money, RInt(SpendCost(last'.branch, last'.tile, last'.tool))))
     => /\ grid' = grid
        /\ stats' = stats
        /\ Len(newsFeed') = Len(Slice12(newsFeed)) + 1
        /\ SubSeq(newsFeed', 1, Len(newsFeed') - 1) = Slice12(newsFeed)
        /\ newsFeed'[Len(newsFeed')].type = "negative"]_vars

\* C13: bulldozing an empty tile changes nothing, whatever the money: no
\* cost, the grid, the stats and the news feed stay as they are.
C13_BulldozeEmptyIsNoOp ==
  [][(/\ last'.op = "click" /\ last'.branch # "outside"
      /\ selectedTool = "None"
      /\ grid[last'.y][last'.x].buildingType = "None")
     => /\ grid' = grid /\ stats' = stats /\ newsFeed' = newsFeed
        /\ last'.cost = 0 /\ ~last'.accepted]_vars

\* The road at (0, 0) was demolished with the last 5 of the treasury and the
\* bulldozer has been used on the same cell again: money is 0, not -5.
C13_Witness ==
  /\ last.op = "click" /\ last.tool = "None" /\ last.branch = "none"
  /\ last.x = 0 /\ last.y = 0
  /\ grid[0][0].buildingType = "None" /\ BrokeGrid[0][0].buildingType = "Road"
  /\ ticks = 0 /\ stats.money = RInt(0)

\* C20: whenever a placement, demolition, repair or road upgrade is
\* accepted, money at the moment of the deduction is at least the cost, so
\* the spend does not leave money negative; money becomes negative only in
\* a tick.
C20_TreasuryFloorAtSpend ==
  [][/\ (last'.op = "click" /\ last'.accepted)
          => /\ RLe(RInt(last'.cost), stats.money)
             /\ RLe(RInt(0), stats'.money)
     /\ (RLt(stats'.money, RInt(0)) /\ RLe(RInt(0), stats.money))
          => last'.op = "tick"]_vars

\* --------------------------------------------------- persistence --------
\* A city with every building type on it, roads of the four variants, and
\* tiles that disasters have damaged (40, 30) and ruined (0).
RichGrid ==
  GridOf({Built(0, 0, "Road", 0, 100), Built(1, 0, "Road", 1, 40),
          Built(2, 0, "Road", 2, 100), Built(3, 0, "Road", 3, 0),
          Built(0, 1, "Residential", 0, 40), Built(1, 1, "Commercial", 0, 100),
          Built(2, 1, "Industrial", 0, 30), Built(3, 1, "MixedUse", 0, 100),
          Built(0, 2, "Park", 0, 100), Built(1, 2, "PowerPlant", 0, 100),
          Built(2, 2, "WaterPump", 0, 100), Built(3, 2, "School", 0, 40),
          Built(0, 3, "Hospital", 0, 100), Built(1, 3, "PoliceStation", 0, 100),
          Built(2, 3, "Stadium", 0, 0), Built(3, 3, "Airport", 0, 100)})

Rich ==
  <<RichGrid,
    CityOf(3000, 25, "rainy", Spread(FullBudget, [power |-> 50, safety |-> 0]))>>

\* A tile as the versions before tile health wrote it.
LegacyTile(x, y, type) == [x |-> x, y |-> y, buildingType |-> type]

\* A grid saved before tiles had health; its one road has a variant.
LegacyGrid ==
  [y \in Coords |-> [x \in Coords |->
     IF y = 0 /\ x = 0 THEN Spread(LegacyTile(x, y, "Road"), [variant |-> 2])
     ELSE IF y = 0 /\ x = 1 THEN LegacyTile(x, y, "Residential")
     ELSE IF y = 1 /\ x = 0 THEN LegacyTile(x, y, "PowerPlant")
     ELSE LegacyTile(x, y, "None")]]

\* A grid of which some tiles carry health (0 and 40) and the others do not.
MixedGrid ==
  [LegacyGrid EXCEPT ![0][1] = Spread(@, [health |-> 0]),
                     ![1][0] = Spread(@, [health |-> 40])]

\* The stats of the first version: money, population, day.
OldestStats == [money |-> RInt(1200), population |-> 30, day |-> 12]

\* Stats of a version between: some of the newer fields, several of them 0,
\* no goods, safety, traffic or budget.
MiddleStats ==
  Spread(OldestStats,
    [happiness |-> 0, pollution |-> 35, weather |-> "snowy",
     powerSupply |-> RInt(0), powerDemand |-> 7,
     waterSupply |-> Rat(15, 2), waterDemand |-> 0,
     educationCoverage |-> 0, healthcareCoverage |-> 60])

\* Stats with every field but the budget, the coverages and congestion at 0.
ZeroStats ==
  Spread([f \in DOMAIN InitialStats \ {"budget"} |-> InitialStats[f]],
    [happiness |-> 0, educationCoverage |-> 0, healthcareCoverage |-> 0,
     safetyCoverage |-> 0, trafficCongestion |-> 0, goodsDemand |-> 0])

\* Stats with a budget of their own and nothing else that is newer.
BudgetStats ==
  Spread(OldestStats,
    [budget |-> Spread(FullBudget, [education |-> 0, environment |-> 50])])

\* Saves written by earlier versions of the program.
LegacySaves ==
  {SaveOf(LegacyGrid, OldestStats, NoGoal, <<>>, FALSE),
   SaveOf(MixedGrid, MiddleStats, NoGoal, <<Welcome>>, FALSE),
   SaveOf(LegacyGrid, ZeroStats, NoGoal, <<Welcome>>, FALSE),
   SaveOf(MixedGrid, BudgetStats, NoGoal, <<>>, FALSE)}

\* Saving and loading: the rich city running with nothing stored, or a fresh
\* page over a legacy save; the player saves, bulldozes, reloads the page and
\* loads while the clock ticks.
InitPersist ==
  \/ Running(Rich, "None")
  \/ FreshPage /\ storage \in {<<s>> : s \in LegacySaves}

NextPersist ==
  \/ \E quotaExceeded \in BOOLEAN : SaveGame(quotaExceeded)
  \/ Reload
  \/ LoadGame
  \/ \E x \in {0, 1} : TileClick(x, 0)
  \/ Tick(NoDisaster(gridRef), stats.weather, FALSE, FALSE)
  \/ RunEffects

SpecPersist == InitPersist /\ [][NextPersist]_vars

\* Every tile has its health and the stats have every field: what
\* handleSaveGame writes for a state of this program.
CurrentFormat(record) ==
  /\ \A y \in DOMAIN record.grid : \A x \in DOMAIN record.grid[y] :
       Has(record.grid[y][x], "health")
  /\ DOMAIN InitialStats \subseteq DOMAIN record.stats

AllTiles(g) == {g[y][x] : y \in DOMAIN g, x \in DOMAIN g}

\* C9: save followed by load is a round trip on Grid and CityStats: a
\* successful save stores the grid and stats it read unchanged, every state
\* the program reaches is stored in the current format, and loading a record
\* of that format gives a Grid and CityStats equal to the stored ones.
C9_SaveLoadRoundTrip ==
  [][/\ (last'.op = "save" /\ last'.ok)
          => /\ storage'[1].grid = gridRef /\ storage'[1].stats = statsRef
             /\ CurrentFormat(storage'[1])
             /\ LoadedGrid(storage'[1].grid) = gridRef
             /\ LoadedStats(storage'[1].stats) = statsRef
     /\ (last'.op = "load" /\ CurrentFormat(storage[1]))
          => /\ grid' = storage[1].grid
             /\ stats' = storage[1].stats]_vars

\* The rich city, saved in this run after two ticks changed its stats, has
\* been loaded on a reloaded page: every building type, the four road
\* variants, a ruined and a damaged tile.
C9_Witness ==
  /\ last.op = "load" /\ ticks = 2
  /\ grid = RichGrid /\ grid = storage[1].grid
  /\ stats = storage[1].stats /\ stats # Rich[2]
  /\ {t.buildingType : t \in AllTiles(grid)} = BuildingTypes
  /\ {t.variant : t \in {r \in AllTiles(grid) : r.buildingType = "Road"}} = 0 .. 3
  /\ \E t \in AllTiles(grid) : t.health = 0
  /\ \E t \in AllTiles(grid) : t.health > 0 /\ t.health < 100

\* The defaults the load documents for the fields that older saves lack.
DocumentedDefaults ==
  [happiness |-> 100, pollution |-> 0, weather |-> "sunny",
   powerSupply |-> RInt(0), powerDemand |-> 0,
   waterSupply |-> RInt(0), waterDemand |-> 0,
   goodsSupply |-> RInt(0), goodsDemand |-> 0,
   educationCoverage |-> 100, healthcareCoverage |-> 100,
   safetyCoverage |-> 100, trafficCongestion |-> 0,
   budget |-> [c \in BudgetCategories |-> 100]]

\* `loaded` is `saved` with the fields of `defaults` that it lacks.
FilledFrom(loaded, saved, defaults) ==
  /\ DOMAIN loaded = DOMAIN saved \cup DOMAIN defaults
  /\ \A f \in DOMAIN saved : loaded[f] = saved[f]
  /\ \A f \in DOMAIN defaults \ DOMAIN saved : loaded[f] = defaults[f]

\* C10: a load fills every newer stats field the save lacks with its
\* documented default and gives health 100 to every tile without health;
\* every field the save holds, the values 0 included, is kept as saved.
C10_LegacyDefaults ==
  [][last'.op = "load"
     => /\ FilledFrom(stats', storage[1].stats, DocumentedDefaults)
        /\ DOMAIN grid' = DOMAIN storage[1].grid
        /\ \A y \in DOMAIN grid' :
             /\ DOMAIN grid'[y] = DOMAIN storage[1].grid[y]
             /\ \A x \in DOMAIN grid'[y] :
                  FilledFrom(grid'[y][x], storage[1].grid[y][x], [health |-> 100])]_vars

\* A save of a version between has been loaded: its happiness 0 and ruined
\* tile are kept, its missing budget and tile healths are filled in.
C10_Witness ==
  /\ last.op = "load"
  /\ ~Has(last.record.stats, "budget") /\ stats.budget = FullBudget
  /\ Has(last.record.stats, "happiness") /\ stats.happiness = 0
  /\ ~Has(last.record.stats, "safetyCoverage") /\ stats.safetyCoverage = 100
  /\ ~Has(last.record.grid[0][0], "health") /\ grid[0][0].health = 100
  /\ Has(last.record.grid[0][1], "health") /\ grid[0][1].health = 0

\* ---------------------------------------------- incomplete saves --------
\* `record` without `field`.
Without(record, field) == [f \in DOMAIN record \ {field} |-> record[f]]

\* A whole save with one tile of a type the catalog does not have.
UnknownTypeSave ==
  [EarningSave EXCEPT !.grid = WithTile(@, 2, 2, Built(2, 2, "Casino", 0, 100))]

\* Stored text that is not the JSON of a whole save, or not of a valid one.
CorruptSaves ==
  {Unparseable,
   Without(EarningSave, "grid"),
   Without(EarningSave, "stats"),
   Without(EarningSave, "aiEnabled"),
   UnknownTypeSave}

\* A fresh page over a corrupt save: the player tries to load, starts a new
\* game without AI, builds and upgrades roads while the clock ticks.
InitCorrupt == FreshPage /\ storage \in {<<s>> : s \in CorruptSaves}

NextCorrupt ==
  \/ LoadGame
  \/ Start(FALSE)
  \/ \E x \in {0, GRID_SIZE - 1} : TileClick(x, 0)
  \/ Tick(NoDisaster(gridRef), stats.weather, FALSE, FALSE)
  \/ RunEffects

SpecCorrupt == InitCorrupt /\ [][NextCorrupt]_vars

\* The fields handleSaveGame writes and handleLoadGame reads.
SaveFields == {"grid", "stats", "currentGoal", "newsFeed", "aiEnabled"}

Incomplete(record) == ~(SaveFields \subseteq DOMAIN record)

\* C11: loading a corrupt or incomplete record (unparseable text, or a record
\* missing grid, stats or another field) leaves grid, stats, current goal,
\* news feed, aiEnabled and gameStarted all unchanged.
C11_IncompleteLoadChangesNothing ==
  [][(last'.op = "load" /\ Incomplete(storage[1]))
     => UNCHANGED <<grid, stats, currentGoal, newsFeed, aiEnabled, gameStarted>>]_vars

\* g with its tiles of unknown type left out.
SkipUnknown(g) ==
  [y \in Coords |-> [x \in Coords |->
     IF <<x, y>> \in UnknownTiles(g) THEN createInitialGrid[y][x] ELSE g[y][x]]]

\* C19: a tick on a grid with a tile of unknown type raises no fault and
\* computes the new stats from the remaining tiles.
C19_UnknownTypeSkipped ==
  [][(last'.op = "tick" /\ UnknownTiles(gridRef) # {})
     => /\ ~last'.fault
        /\ \E w \in WeatherTypes :
             stats' = NewStats(stats, Accounts(SkipUnknown(gridRef), statsRef.budget),
                               last'.disaster, w)]_vars

\* ------------------------------------------------------- damage ---------
\* What pass 1 sums with a factor healthFactor, and what it sums without.
ScaledAggregates ==
  {"pSupply", "wSupply", "eduCapacity", "healthCapacity", "safetyCapacity",
   "gSupply", "roadCapacity"}

FixedAggregates == {"dailyMaintenance", "pDemand", "wDemand", "gDemand"}

\* `worn`, `gone` and `sound` are one aggregate computed on a grid, on that
\* grid without one tile and on that grid with the tile at health 100: the
\* tile's share of `worn` is h / 100 of its share of `sound`.
ScalesBy(h, worn, gone, sound) ==
  RSub(worn, gone) = RMul(Rat(h, 100), RSub(sound, gone))

\* The cells of g with a building whose health is below 100.
DamagedCells(g) ==
  {c \in Coords \X Coords :
     /\ g[c[2]][c[1]].buildingType # "None"
     /\ Has(g[c[2]][c[1]], "health")
     /\ g[c[2]][c[1]].health < 100}

\* Tile c of g contributes to the tick on g and `budget` as C17 says.
DamageScalesTile(g, budget, c, tile, a) ==
  \E gone \in {WithTile(g, c[1], c[2], createInitialGrid[c[2]][c[1]])} :
  \E sound \in {WithTile(g, c[1], c[2], Spread(tile, [health |-> 100]))} :
  \E p1gone \in {Pass1(gone, budget)} :
  \E p1sound \in {Pass1(sound, budget)} :
  \E p2worn \in {Pass2(g, a.basicUtilEfficiency, a.goodsEfficiency)} :
  \E p2gone \in {Pass2(gone, a.basicUtilEfficiency, a.goodsEfficiency)} :
  \E p2sound \in {Pass2(sound, a.basicUtilEfficiency, a.goodsEfficiency)} :
    /\ \A f \in ScaledAggregates : ScalesBy(tile.health, a[f], p1gone[f], p1sound[f])
    /\ \A f \in FixedAggregates : a[f] = p1sound[f]
    /\ \A f \in {"dailyIncome", "dailyPopGrowth"} :
         ScalesBy(tile.health, p2worn[f], p2gone[f], p2sound[f])
    /\ tile.health = 0 =>
         /\ \A f \in ScaledAggregates : a[f] = p1gone[f]
         /\ p2worn = p2gone

\* C17: in every tick a tile of health h contributes h / 100 of what it
\* contributes at health 100 to income, goods supply, power and water supply,
\* service capacity, population growth and road capacity (at the efficiencies
\* of that tick), while maintenance and the power, water and goods demand are
\* those of the grid with the tile at health 100; at health 0 it contributes
\* what an empty cell does.
C17_DamageScalesOutput ==
  last.op = "tick" =>
    \E a \in {Accounts(last.grid, last.budget)} :
      \A c \in DamagedCells(last.grid) :
        DamageScalesTile(last.grid, last.budget, c, last.grid[c[2]][c[1]], a)

\* A tick on the rich city: its Industrial tile at health 30 earns and
\* supplies goods (3 of 10), its ruined stadium and road give nothing.
C17_Witness ==
  /\ last.op = "tick" /\ last.grid = RichGrid
  /\ last.grid[1][2].buildingType = "Industrial" /\ last.grid[1][2].health = 30
  /\ \E a \in {Accounts(last.grid, last.budget)} :
     \E gone \in {Pass1(WithTile(last.grid, 2, 1, createInitialGrid[1][2]), last.budget)} :
       /\ RSub(a.gSupply, gone.gSupply) = RInt(3)
       /\ RLt(RInt(0), a.basicUtilEfficiency)
       /\ RLt(RInt(0), a.dailyIncome)
  /\ last.grid[3][2].buildingType = "Stadium" /\ last.grid[3][2].health = 0

\* ------------------------------------------------------ building --------
\* The earning city with a worn road, and 4 in the treasury.
Works ==
  <<WithTile(EarningGrid, 1, 1, Built(1, 1, "Road", 0, 60)),
    CityOf(4, 0, "sunny", FullBudget)>>

InitBuild == Running(Works, "Road")

\* No disaster, or, on the city as it starts, one around the factory at
\* (0, 0) that takes 59 from every tile it hits.
BuildDraws(currentGrid) ==
  {NoDisaster(currentGrid)}
  \cup (IF currentGrid = Works[1]
        THEN {[occurred |-> TRUE, center |-> <<0, 0>>,
               grid |-> Damaged(currentGrid, <<0, 0>>, [c \in Coords \X Coords |-> 59]),
               hitCount |-> Cardinality(HitTiles(currentGrid, <<0, 0>>)),
               disasterType |-> "Fire"]}
        ELSE {})

\* A factory, the worn road, the power plant, a sound road and an empty cell;
\* bulldozer and road tool; ticks that earn 51, with or without a disaster.
NextBuild ==
  \/ \E tool \in {"None", "Road"} : SelectTool(tool)
  \/ \E c \in {<<0, 0>>, <<1, 1>>, <<3, 0>>, <<3, 1>>, <<4, 4>>} : TileClick(c[1], c[2])
  \/ \E d \in BuildDraws(gridRef) : Tick(d, stats.weather, FALSE, FALSE)
  \/ RunEffects

SpecBuild == InitBuild /\ [][NextBuild]_vars

\* What a click with `tool` on `tile` does, by the precedence repair,
\* demolish, road upgrade, placement.
ClickKind(tile, tool) ==
  IF tile.buildingType # "None" /\ tool # "None" /\ HealthOf(tile) < 100
  THEN "repair"
  ELSE IF tool = "None"
  THEN (IF tile.buildingType # "None" THEN "demolish" ELSE "none")
  ELSE IF tool = "Road" /\ tile.buildingType = "Road" THEN "upgrade"
  ELSE IF tile.buildingType = "None" THEN "place"
  ELSE "none"

\* C21: every click attempts exactly the action its tile and tool select by
\* the precedence repair, demolish, road upgrade, placement, and no other.
C21_ClickPrecedence ==
  [][(last'.op = "click" /\ last'.branch # "outside")
     => last'.branch = ClickKind(grid[last'.y][last'.x], selectedTool)]_vars

\* money >= cost, on the stats of the state
Affords(cost) == RLe(RInt(cost), stats.money)

\* C22: a click with a non-bulldoze tool on an occupied tile of health below
\* 100 while money >= floor(cost / 2) sets that tile's health to 100, takes
\* exactly that amount from money and changes no other tile and nothing else
\* of the tile.
C22_Repair ==
  [][(/\ last'.op = "click" /\ last'.branch # "outside"
      /\ selectedTool # "None"
      /\ grid[last'.y][last'.x].buildingType # "None"
      /\ HealthOf(grid[last'.y][last'.x]) < 100
      /\ Affords(BUILDINGS[grid[last'.y][last'.x].buildingType].cost \div 2))
     => /\ grid' = WithTile(grid, last'.x, last'.y,
                            Spread(grid[last'.y][last'.x], [health |-> 100]))
        /\ stats' = Spend(stats, BUILDINGS[grid[last'.y][last'.x].buildingType].cost \div 2)]_vars

\* C23: a click with the bulldozer on an occupied tile while money >= 5
\* makes the tile {None, variant 0, health 100}, takes exactly 5 and changes
\* no other tile.
C23_Demolish ==
  [][(/\ last'.op = "click" /\ last'.branch # "outside"
      /\ selectedTool = "None"
      /\ grid[last'.y][last'.x].buildingType # "None"
      /\ Affords(5))
     => /\ grid' = WithTile(grid, last'.x, last'.y,
                            Spread(grid[last'.y][last'.x],
                                   [buildingType |-> "None", variant |-> 0,
                                    health |-> 100]))
        /\ stats' = Spend(stats, 5)]_vars

\* C24: a click with the Road tool on an undamaged Road while money >= 50
\* sets its variant to (variant + 1) mod 4, which is in 0 .. 3, takes exactly
\* 50 and changes nothing else of the grid.
C24_RoadVariantCycle ==
  [][(/\ last'.op = "click" /\ last'.branch # "outside"
      /\ selectedTool = "Road"
      /\ grid[last'.y][last'.x].buildingType = "Road"
      /\ HealthOf(grid[last'.y][last'.x]) = 100
      /\ Affords(50))
     => /\ grid' = WithTile(grid, last'.x, last'.y,
                            Spread(grid[last'.y][last'.x],
                                   [variant |-> (VariantOf(grid[last'.y][last'.x]) + 1) % 4]))
        /\ grid'[last'.y][last'.x].variant \in 0 .. 3
        /\ stats' = Spend(stats, 50)]_vars

\* C25: a click with a building tool on an empty tile while money >= the
\* tool's cost makes the tile {tool, variant 0, health 100}, takes exactly
\* that cost and changes no other tile and no other stats field.
C25_Placement ==
  [][(/\ last'.op = "click" /\ last'.branch # "outside"
      /\ selectedTool # "None"
      /\ grid[last'.y][last'.x].buildingType = "None"
      /\ Affords(BUILDINGS[selectedTool].cost))
     => /\ grid' = WithTile(grid, last'.x, last'.y,
                            Spread(grid[last'.y][last'.x],
                                   [buildingType |-> selectedTool, variant |-> 0,
                                    health |-> 100]))
        /\ stats' = Spend(stats, BUILDINGS[selectedTool].cost)]_vars

\* ------------------------------------------------- homelessness ---------
\* C26: a tick on a grid without housing that leaves a population above 0
\* stores happiness exactly 10, whatever the other terms would contribute.
C26_HomelessHappinessIsTen ==
  (last.op = "tick" /\ ~last.fault /\ HousingOn(last.grid) = 0 /\ stats.population > 0)
    => stats.happiness = 10

\* C27: a tick on a grid without housing and with a prior population p > 0
\* stores population max(0, p - 5), whatever the population growth; after
\* every tick population is a non-negative integer.
C27_Emigration ==
  (last.op = "tick" /\ ~last.fault)
    => /\ stats.population \in Nat
       /\ (HousingOn(last.grid) = 0 /\ last.prev.population > 0)
            => stats.population = Max(0, last.prev.population - 5)

\* The three campers leave although the park would attract a resident.
C27_Witness ==
  /\ last.op = "tick" /\ ~last.fault /\ last.grid = Camp[1]
  /\ last.prev.population = 3 /\ stats.population = 0
  /\ RLt(RInt(0), Accounts(last.grid, last.budget).dailyPopGrowth)

\* ------------------------------------------------------ tile health -----
\* The step is an accepted repair, demolition or placement on cell c.
Mends(c) ==
  /\ last'.op = "click" /\ last'.accepted
  /\ last'.branch \in {"repair", "demolish", "place"}
  /\ <<last'.x, last'.y>> = c

\* C28: every tile's health is in 0 .. 100; a step lowers a tile's health
\* only as a disaster does, by 20 to 60 and not below 0, and raises it only
\* as a repair, a demolition or a placement on that tile does, to exactly 100.
C28_HealthDomain ==
  [][\A c \in Coords \X Coords :
       /\ HealthOf(grid'[c[2]][c[1]]) \in 0 .. 100
       /\ HealthOf(grid'[c[2]][c[1]]) < HealthOf(grid[c[2]][c[1]])
            => /\ last'.op = "tick" /\ last'.disaster
               /\ \E damage \in 20 .. 60 :
                    HealthOf(grid'[c[2]][c[1]]) = Max(0, HealthOf(grid[c[2]][c[1]]) - damage)
       /\ HealthOf(grid'[c[2]][c[1]]) > HealthOf(grid[c[2]][c[1]])
            => Mends(c) /\ HealthOf(grid'[c[2]][c[1]]) = 100]_vars

\* ------------------------------------------- a disaster without target --
\* No tile of g is neither empty nor a Road and has health above 0.
NothingToDamage(g) ==
  \A c \in Coords \X Coords :
    \/ g[c[2]][c[1]].buildingType \in {"None", "Road"}
    \/ HealthOf(g[c[2]][c[1]]) = 0

\* C29: a tick whose roll names a disaster while the grid has no damageable
\* tile leaves the grid and the news feed as they are and stores the
\* happiness of a tick without the disaster penalty.
C29_NoTargetNoDisaster ==
  [][(last'.op = "tick" /\ last'.roll # "" /\ NothingToDamage(grid))
       => /\ grid' = grid
          /\ newsFeed' = newsFeed
          /\ ~last'.disaster
          /\ stats'.happiness =
               NewStats(stats, Accounts(grid, stats.budget), FALSE, stats'.weather).happiness]_vars

\* A storm is rolled over the road and the two ruins.
C29_Witness ==
  /\ last.op = "tick" /\ last.roll = "Storm" /\ last.grid = Ruins[1]
  /\ NothingToDamage(last.grid) /\ grid = Ruins[1] /\ stats.day = 41

\* ------------------------------------------- damage and the next tick ---
\* C30: every tick stores the stats computed from the tile health of the grid
\* it starts on: the tick of a disaster from the health of before the damage,
\* which it leaves in the grid for the tick that follows.
C30_DamageFeedsBackNextTick ==
  [][(last'.op = "tick" /\ ~last'.fault)
       => /\ stats' = NewStats(stats, Accounts(grid, stats.budget),
                               last'.disaster, stats'.weather)
          /\ last'.disaster
               => /\ grid' # grid
                  /\ \A c \in Coords \X Coords :
                       HealthOf(grid'[c[2]][c[1]]) <= HealthOf(grid[c[2]][c[1]])]_vars

\* The second tick of the hamlet after a fire on its first: the first stored
\* the full power supply, the second stores that of the damaged plant.
C30_Witness ==
  /\ last.op = "tick" /\ ~last.fault /\ last.prev.day = 41
  /\ \E roll \in DamageRolls : last.grid = Damaged(Hamlet[1], <<1, 1>>, roll)
  /\ last.grid[1][2].health < 100
  /\ last.prev.powerSupply = Accounts(Hamlet[1], FullBudget).pSupply
  /\ RLt(stats.powerSupply, last.prev.powerSupply)

\* ------------------------------------------------------ the news --------
\* A feed of n items, the oldest first.
FeedOf(n) == [i \in 1 .. n |-> News("neutral", <<"item", i>>)]

\* A save of a game without AI whose feed is full.
QuietSave == SaveOf(EarningGrid, CityOf(40, 0, "sunny", FullBudget), NoGoal, FeedOf(13), FALSE)

\* A save of the garden city played with AI, a goal in progress.
GardenSave == SaveOf(Garden[1], Garden[2], MoneyGoal, <<Welcome>>, TRUE)

\* A new page with nothing stored, the garden city with AI and a goal, or the
\* earning city without AI.
InitNews == FreshPage /\ storage \in {<<>>, <<GardenSave>>, <<QuietSave>>}

\* No disaster, a roll without target, or the fire around the first of
\* builtTiles that takes 59 from every tile it hits.
NewsDraws(currentGrid) ==
  {NoDisaster(currentGrid)} \cup Fizzles(currentGrid)
  \cup {d \in Strikes(currentGrid) :
          /\ \A e \in BuiltTiles(currentGrid) : Rank(d.center) <= Rank(e)
          /\ d.grid = Damaged(currentGrid, d.center, [c \in Coords \X Coords |-> 59])}

NextNews ==
  \/ \E enabled \in BOOLEAN : Start(enabled)
  \/ LoadGame
  \/ TileClick(3, 3)
  \/ \E d \in NewsDraws(gridRef), wantNews \in BOOLEAN : Tick(d, stats.weather, FALSE, wantNews)
  \/ \E item \in NewsOutcomes : NewsArrives(item)
  \/ MonitorFires
  \/ \E o \in GoalOutcomes : GoalArrives(o)
  \/ RunEffects

SpecNews == InitNews /\ [][NextNews]_vars

\* ------------------------------------------------------ the ledger ------
\* The saved earning city loaded and played with every operation that can
\* touch the stats: clicks, claims, budget, saves, ticks with and without a
\* disaster, news and goals arriving.
InitLedger == FreshPage /\ storage = <<EarningSave>>

LedgerOutcomes ==
  {o \in GoalOutcomes : o.kind = "throws" \/ (o.kind = "goal" /\ o.goal.targetType = "money")}

NextLedger ==
  \/ LoadGame
  \/ TileClick(3, 3)
  \/ ClaimReward
  \/ BudgetChange("power", 50)
  \/ \E quotaExceeded \in BOOLEAN : SaveGame(quotaExceeded)
  \/ \E d \in NewsDraws(gridRef), wantNews \in BOOLEAN : Tick(d, stats.weather, FALSE, wantNews)
  \/ \E item \in NewsOutcomes \ {<<>>} : NewsArrives(item)
  \/ MonitorFires
  \/ \E o \in LedgerOutcomes : GoalArrives(o)
  \/ RunEffects

SpecLedger == InitLedger /\ [][NextLedger]_vars

\* The happiness a tick stores when 10 is taken before the clamp from the
\* value that, clamped, is `unpenalised`.
Penalised(unpenalised, stored) ==
  IF unpenalised = 100 THEN stored \in 90 .. 100
  ELSE stored = Max(0, unpenalised - 10)

\* C31: a tick whose disaster damaged a tile stores the happiness with 10
\* taken before the clamp, appends exactly one negative news item and starts
\* no news request; a tick without one stores the happiness without the
\* penalty and appends nothing.
C31_DisasterTick ==
  [][(last'.op = "tick" /\ ~last'.fault)
       => \E unpenalised \in {NewStats(stats, Accounts(grid, stats.budget), FALSE,
                                       stats'.weather).happiness} :
            IF last'.disaster
            THEN /\ grid' # grid
                 /\ Penalised(unpenalised, stats'.happiness)
                 /\ Len(newsFeed') = Min(13, Len(newsFeed) + 1)
                 /\ newsFeed'[Len(newsFeed')].type = "negative"
                 /\ SubSeq(newsFeed', 1, Len(newsFeed') - 1) = Slice12(newsFeed)
                 /\ newsRequests' = newsRequests
            ELSE /\ grid' = grid
                 /\ stats'.happiness = unpenalised
                 /\ newsFeed' = newsFeed]_vars

\* The loaded garden city with AI is struck: 10 less happiness than the same
\* tick without the fire, the disaster item last in the feed, no request.
C31_Witness ==
  /\ last.op = "tick" /\ last.disaster /\ last.ai /\ aiEnabledRef
  /\ newsRequests = 0 /\ ~last.fetched
  /\ newsFeed[Len(newsFeed)] = News("negative", "DISASTER!")
  /\ stats.happiness + 10
       = NewStats(last.prev, Accounts(last.grid, last.budget), FALSE, stats.weather).happiness

\* The feed an append is made to: the stored one when a save is loaded
\* (setNewsFeed before addNewsItem), the current one otherwise.
AppendedTo == IF last'.op = "load" THEN storage[1].newsFeed ELSE newsFeed

\* C32: the feed never holds more than 13 items, and every step that changes
\* it appends one item: to a feed of 13 by dropping the oldest and keeping the
\* other 12 in their order, the new item last.
C32_BoundedLog ==
  [][/\ Len(newsFeed') <= 13
     /\ newsFeed' # newsFeed
          => /\ Len(newsFeed') = Min(13, Len(AppendedTo) + 1)
             /\ SubSeq(newsFeed', 1, Len(newsFeed') - 1)
                  = IF Len(AppendedTo) = 13 THEN Tail(AppendedTo) ELSE AppendedTo]_vars

\* The full feed after two more items: items 3 to 13 in front.
C32_Witness ==
  /\ Len(newsFeed) = 13 /\ last.op # "load"
  /\ SubSeq(newsFeed, 1, 11) = SubSeq(FeedOf(13), 3, 13)

\* ------------------------------------------------------ the calendar ----
\* C33: a tick that runs to its end raises day by exactly 1; no click, claim,
\* budget change, save, goal or news arrival or effect changes day, and but
\* for the load that begins a session day never falls.
C33_DayCounts ==
  [][/\ (last'.op = "tick" /\ ~last'.fault) => stats'.day = stats.day + 1
     /\ last'.op \notin {"tick", "load"} => stats'.day = stats.day
     /\ last'.op # "load" => stats'.day >= stats.day]_vars

\* Day 42 of the loaded city, two ticks after day 40, with a click, a claim,
\* a save or a budget change in between.
C33_Witness ==
  /\ stats.day = 42 /\ ticks = 2 /\ ops > 0

\* ------------------------------------------------------ the reward ------
\* C34: money rises by a reward only in a claim of the completed current
\* goal, which leaves no goal behind, in state or in the reference the tick
\* reads; and a goal appears where there was none only when the generator
\* delivers one or a save is loaded, never by a tick.  So between two
\* payments a goal has been delivered.
C34_RewardPaidOnce ==
  [][/\ (last'.op = "claim" /\ stats' # stats)
          => /\ IsGoal(currentGoal) /\ currentGoal.completed
             /\ stats'.money = RAdd(stats.money, RInt(currentGoal.reward))
             /\ currentGoal' = NoGoal /\ goalRef' = NoGoal
     /\ (~IsGoal(currentGoal) /\ IsGoal(currentGoal')) => last'.op \in {"goal", "load"}
     /\ (last'.op = "tick" /\ ~IsGoal(currentGoal)) => ~IsGoal(last'.goal)]_vars

\* A tick after the claim of the 30000 goal, with the money still above the
\* target: the tick reads no goal and leaves none.
C34_Witness ==
  /\ last.op = "tick" /\ last.ai /\ ~IsGoal(last.had) /\ ~IsGoal(last.goal)
  /\ \E i \in DOMAIN newsFeed : newsFeed[i].text = "Goal achieved!"
  /\ RLe(RInt(30000), stats.money)
  /\ currentGoal = NoGoal

\* ------------------------------------------------------ lost updates ----
\* C35: a click changes no tile but the one clicked, so what earlier accepted
\* actions and committed disasters did to the other tiles stays in the grid.
C35_NoLostUpdate ==
  [][last'.op = "click"
       => \A c \in Coords \X Coords :
            c # <<last'.x, last'.y>> => grid'[c[2]][c[1]] = grid[c[2]][c[1]]]_vars

\* ------------------------------------------------------ overwriting -----
\* C36: a click on an undamaged occupied tile with a building tool, but for
\* the Road tool on a Road, changes neither grid nor stats nor news feed; a
\* step changes a tile's building type only as an accepted placement on that
\* tile does, from None to the tool, or an accepted demolition, to None.
C36_NoOverwrite ==
  [][/\ (/\ last'.op = "click" /\ last'.branch # "outside"
         /\ grid[last'.y][last'.x].buildingType # "None"
         /\ HealthOf(grid[last'.y][last'.x]) = 100
         /\ selectedTool # "None"
         /\ ~(selectedTool = "Road" /\ grid[last'.y][last'.x].buildingType = "Road"))
          => UNCHANGED <<grid, stats, newsFeed>>
     /\ \A c \in Coords \X Coords :
          grid'[c[2]][c[1]].buildingType # grid[c[2]][c[1]].buildingType
            => /\ last'.op = "click" /\ last'.accepted /\ c = <<last'.x, last'.y>>
               /\ \/ /\ last'.branch = "place"
                     /\ grid[c[2]][c[1]].buildingType = "None"
                     /\ grid'[c[2]][c[1]].buildingType = selectedTool
                  \/ /\ last'.branch = "demolish"
                     /\ grid'[c[2]][c[1]].buildingType = "None"]_vars

\* The power plant clicked with the Road tool and 55 in the treasury, while
\* the grid a disaster has left is not yet in the reference: nothing happens.
C36_Witness ==
  /\ last.op = "click" /\ last.tool = "Road" /\ last.branch = "none"
  /\ last.tile.buildingType = "PowerPlant" /\ HealthOf(last.tile) = 100
  /\ RLe(RInt(BUILDINGS["Road"].cost), last.read)
  /\ grid[0][0].health < 100
  /\ grid[last.y][last.x] = last.tile

\* ------------------------------------------------------ the ledger ------
\* C37: money starts at INITIAL_MONEY; a tick that runs to its end adds the
\* income less the maintenance of the grid and budget it finds, whether or
\* not it brings a disaster; an accepted placement, demolition, repair or
\* upgrade takes its cost; a claim that pays adds the reward; the load that
\* begins a session puts the saved money; nothing else changes money.
C37_Ledger ==
  /\ stats.money = RInt(INITIAL_MONEY)
  /\ [][/\ stats'.money =
             CASE last'.op = "tick" /\ ~last'.fault
                    -> RAdd(stats.money, NetIncome(Accounts(grid, stats.budget)))
               [] last'.op = "click" /\ last'.accepted
                    -> RSub(stats.money, RInt(last'.cost))
               [] last'.op = "claim" /\ last'.paid
                    -> RAdd(stats.money, RInt(currentGoal.reward))
               [] last'.op = "load" /\ last'.fault = "none"
                    -> last'.record.stats.money
               [] OTHER -> stats.money
        /\ (last'.op = "click" /\ last'.accepted)
             => /\ last'.branch \in SpendBranches
                /\ last'.cost = SpendCost(last'.branch, last'.tile, last'.tool)]_vars

\* The loaded 29948 after two ticks of 51 each, a road bought for 10 and the
\* reward of 500 claimed: 30540.
C37_Witness ==
  /\ last.op = "claim" /\ last.paid /\ ticks = 2
  /\ stats.money = RInt(29948 + 51 + 51 - 10 + 500)

\* ------------------------------------------------------ AI disabled -----
\* C38: in a started session with AI disabled no goal request and no news
\* request is in flight or begun, the monitor's timer is not armed and AI
\* stays disabled; no step, a tick included, changes the current goal; and a
\* game started with AI disabled starts without a goal, so it never has one.
C38_AiDisabled ==
  [][/\ (gameStarted' /\ ~aiEnabled')
          => /\ goalRequests' = 0 /\ newsRequests' = 0
             /\ ~isGeneratingGoal' /\ ~monitorTimer'
     /\ (gameStarted /\ ~aiEnabled)
          => /\ ~aiEnabled' /\ ~aiEnabledRef'
             /\ currentGoal' = currentGoal
     /\ (last'.op = "start" /\ ~aiEnabled') => currentGoal' = NoGoal]_vars

\* Day 3 of a new game started with AI disabled: two ticks without a
\* disaster, no request begun, no goal, nothing in the feed but the welcome.
C38_Witness ==
  /\ gameStarted /\ ~aiEnabled
  /\ last.op = "tick" /\ ~last.ai /\ ~last.disaster /\ ~last.fetched
  /\ ticks = 2 /\ stats.day = 3
  /\ newsFeed = <<Welcome>>
  /\ currentGoal = NoGoal /\ goalRequests = 0 /\ newsRequests = 0

=============================================================================
